---------------------------- MODULE Spec2Model ----------------------------
(***************************************************************************)
(* Model of the ingestion / aggregation / scoring pipeline of the security *)
(* dashboard: ScansPage.processFile (row -> Finding), DataProvider's        *)
(* calculateSummary / uploadFindings, and securityAnalyzer's                *)
(* analyzeSecurityData; the two CSVUploader components with their parseCSV  *)
(* and validateCSVData; the scan stores (DataProvider, dataStore); the two  *)
(* CSV exports and Papa's reading of their text.                            *)
(*                                                                          *)
(* SpecIngest: the scans page.  SpecAnalyze: calculateSummary,              *)
(* analyzeSecurityData and validateCSVData on inputs.  SpecUpload: the      *)
(* CSVUploader pages.  SpecStore: saves and deletions.  SpecExport: an      *)
(* export that is uploaded again.  SpecScans: the DataProvider behind the   *)
(* scans page with the callbacks of each render, dataStore called directly  *)
(* and behind Home.  SpecTables: the count tables of calculateSummary,      *)
(* analyzeFindings and analyzeSecurityData.  SpecPages: the upload pages    *)
(* with a parser that calls back in the end.                                *)
(*                                                                          *)
(* JavaScript numbers are IEEE-754 binary64.  The two scores are computed   *)
(* with divisions and multiplications whose results are not exactly         *)
(* representable, and are then handed to Math.round; the model therefore    *)
(* computes them exactly and rounds as binary64 does (section "binary64").  *)
(***************************************************************************)
EXTENDS Integers, Sequences, FiniteSets, TLC

VARIABLES
    rows,          \* ScansPage: results.data handed to Papa's complete callback
    isUploading,   \* ScansPage: isUploading
    error,         \* ScansPage: error
    findings,      \* ScansPage: the Finding[] built by the complete callback
    scans,         \* DataProvider: scans
    currentScan,   \* DataProvider: currentScan
    storage,       \* localStorage['cloudguard-scans']
    now,           \* Date.now() as the latest uploadFindings read it
    sfindings,     \* argument of calculateSummary
    summary,       \* result of calculateSummary
    data,          \* argument of analyzeSecurityData
    metrics,       \* result of analyzeSecurityData
    pc,            \* the call in progress
    file,          \* the File handed to an upload handler
    invoked,       \* whether the upload has called onDataLoaded / uploadFindings
    isLoading,     \* CSVUploader: isLoading
    uploadError,   \* CSVUploader: error
    warnings,      \* CSVUploader (findings): warnings
    parseErrors,   \* CSVUploader (resources): parseErrors
    success,       \* CSVUploader (resources): success
    isLoaded,      \* Home (resources): isLoaded
    lsScans,       \* localStorage['gcp-security-dashboard-scans'] (dataStore)
    lsCurrent,     \* localStorage['gcp-security-dashboard-current'] (dataStore)
    homeScans,     \* Home (findings): scans
    currentScanData, \* Home (findings): currentScanData
    records,       \* the rows parseCSV resolved with, given to validateCSVData
    diagnostics,   \* result of validateCSVData
    exported,      \* the record set an export was made from
    csv,           \* the text of the export
    closure,       \* DataProvider: scans and currentScan of the last render
    deleted        \* the id dataStore.deleteScan was last called with, if it
                   \* was the last call to dataStore

\* the state of the two CSVUploader pages and of dataStore
pageVars == <<isLoading, uploadError, warnings, parseErrors, success,
              isLoaded, lsScans, lsCurrent, homeScans, currentScanData>>

exportVars == <<exported, csv>>

\* what the upload pages leave alone
restVars == <<exportVars, closure, deleted>>

uploaderVars == <<pageVars, records, diagnostics, restVars>>

vars == <<rows, isUploading, error, findings, scans, currentScan, storage, now,
          sfindings, summary, data, metrics, pc, file, invoked, uploaderVars>>

\* null, where the other values are strings
Null == "null"

\* null, where the other values are scan ids (times)
NoId == -1

\* null, where the other values are objects
None == [none |-> TRUE]

--------------------------------------------------------------------------
(* binary64: the numbers the two scores go through.  A number is a sign and *)
(* a magnitude; the magnitude is kept exactly, as the integer magnitude *    *)
(* 2^60 in four limbs of 18 bits (n[1] the most significant).  Every        *)
(* operation computes the exact result and rounds it to the 53 significant  *)
(* bits of a binary64, ties to even.  Magnitudes from 2^-7 up to 2^8 fit.   *)

\* number of significand bits of a JavaScript number
MantBits == 53

Pow2(k) == 2 ^ k

\* one more than the largest limb
Base == Pow2(18)

\* n[1] of the number 1
UnitLimb == Pow2(6)

Zero == [neg |-> FALSE, n |-> <<0, 0, 0, 0>>]

IsZero(x) == x.n = <<0, 0, 0, 0>>

\* limbs brought back into 0..Base-1, carries (or borrows) moved up
Carry(a) ==
    LET l4 == a[4] % Base
        t3 == a[3] + (a[4] - l4) \div Base
        l3 == t3 % Base
        t2 == a[2] + (t3 - l3) \div Base
        l2 == t2 % Base
        t1 == a[1] + (t2 - l2) \div Base
    IN <<t1, l2, l3, l4>>

\* number of bits of v > 0
BitLength(v) == CHOOSE k \in 1..30 : Pow2(k - 1) <= v /\ v < Pow2(k)

\* number of bits of a magnitude
Length(n) ==
    IF n[1] > 0 THEN 54 + BitLength(n[1])
    ELSE IF n[2] > 0 THEN 36 + BitLength(n[2])
    ELSE IF n[3] > 0 THEN 18 + BitLength(n[3])
    ELSE IF n[4] > 0 THEN BitLength(n[4])
    ELSE 0

\* a magnitude rounded to MantBits significant bits, ties to even
Round53(n) ==
    IF Length(n) <= MantBits THEN n
    ELSE LET unit    == Pow2(CHOOSE j \in 1..17 : j = Length(n) - MantBits)
             dropped == n[4] % unit
             kept    == n[4] - dropped
             odd     == (kept \div unit) % 2 = 1
             up      == 2 * dropped > unit \/ (2 * dropped = unit /\ odd)
         IN Carry(<<n[1], n[2], n[3], IF up THEN kept + unit ELSE kept>>)

\* a magnitude times a small integer, exactly
Times(n, k) == Carry(<<n[1] * k, n[2] * k, n[3] * k, n[4] * k>>)

\* exponent of the leading bit of a / b (a, b > 0): 2^e <= a/b < 2^(e+1)
Exponent(a, b) ==
    CHOOSE e \in -7..7 :
        IF e >= 0 THEN Pow2(e) * b <= a /\ a < Pow2(e + 1) * b
        ELSE Pow2(-e) * a >= b /\ Pow2(-e) * a < 2 * b

\* a / b for integers a >= 0, b > 0, as JavaScript computes it: the quotient's
\* first 53 bits by long division, 17 + 18 + 18 at a time, rounded on the
\* remainder, then put at its place
DivInt(a, b) ==
    IF a = 0 THEN Zero
    ELSE LET e     == Exponent(a, b)
             num   == IF e < 0 THEN a * Pow2(-e) ELSE a
             den   == IF e > 0 THEN b * Pow2(e) ELSE b
             qHi   == (num * Pow2(16)) \div den
             r1    == (num * Pow2(16)) % den
             qMid  == (r1 * Base) \div den
             r2    == (r1 * Base) % den
             qLo   == (r2 * Base) \div den
             r3    == (r2 * Base) % den
             up    == 2 * r3 > den \/ (2 * r3 = den /\ qLo % 2 = 1)
             q     == Carry(<<0, qHi, qMid, IF up THEN qLo + 1 ELSE qLo>>)
             shift == 8 + e
         IN [neg |-> FALSE,
             n   |-> Times(Times(q, Pow2(shift \div 2)), Pow2(shift - shift \div 2))]

\* an integer k >= 0 as a number
FromInt(k) == [neg |-> FALSE, n |-> <<k * UnitLimb, 0, 0, 0>>]

\* x * k for a number x and an integer k >= 0
MulInt(x, k) ==
    IF IsZero(x) \/ k = 0 THEN Zero
    ELSE [neg |-> x.neg, n |-> Round53(Times(x.n, k))]

\* |x| < |y|
LessMag(x, y) ==
    \E i \in 1..4 : x.n[i] < y.n[i] /\ \A j \in 1..(i-1) : x.n[j] = y.n[j]

\* |x| + |y| or |x| - |y| (for |x| >= |y|), rounded, with the sign given
Combine(x, y, sign, neg) ==
    LET n == Round53(Carry([i \in 1..4 |-> x.n[i] + sign * y.n[i]]))
    IN IF n = <<0, 0, 0, 0>> THEN Zero ELSE [neg |-> neg, n |-> n]

\* x - y for numbers of either sign
Sub(x, y) ==
    IF x.neg = y.neg
    THEN IF LessMag(x, y) THEN Combine(y, x, -1, ~x.neg)
         ELSE Combine(x, y, -1, x.neg)
    ELSE Combine(x, y, 1, x.neg)

\* Math.min(x, y) for numbers x, y >= 0
MathMin(x, y) == IF LessMag(y, x) THEN y ELSE x

\* Math.round(x): the nearest integer, a half rounding towards +infinity
MathRound(x) ==
    LET whole == x.n[1] \div UnitLimb
        half  == ((2 * x.n[1]) \div UnitLimb) % 2
        more  == (2 * x.n[1]) % UnitLimb # 0 \/ x.n[2] # 0 \/ x.n[3] # 0 \/ x.n[4] # 0
    IN IF x.neg
       THEN (IF half = 1 /\ more THEN -(whole + 1) ELSE -whole)
       ELSE whole + half

\* the clamp forgotten
Unclamped(n) == n

\* Math.max(0, n) on integers
MathMax0(n) == IF n < 0 THEN 0 ELSE n

--------------------------------------------------------------------------
(* types/index.ts *)

Severities == {"CRITICAL", "HIGH", "MEDIUM", "LOW", "INFO"}

\* INFO given the weight of LOW
SeverityWeightInfoCounts(s) ==
    CASE s = "CRITICAL" -> 10
      [] s = "HIGH"     -> 5
      [] s = "MEDIUM"   -> 2
      [] s = "LOW"      -> 1
      [] s = "INFO"     -> 1

\* SEVERITY_CONFIG[severity].weight
SeverityWeight(s) ==
    CASE s = "CRITICAL" -> 10
      [] s = "HIGH"     -> 5
      [] s = "MEDIUM"   -> 2
      [] s = "LOW"      -> 1
      [] s = "INFO"     -> 0

--------------------------------------------------------------------------
(* strings: the operations of String.prototype the program uses, on the    *)
(* vocabulary of the model                                                  *)

\* s.split('.')[0]
SplitDotFirst(s) ==
    CASE s = "storage.googleapis.com/Bucket"   -> "storage"
      [] s = "compute.googleapis.com/Instance" -> "compute"
      [] s = ".hidden"                         -> ""
      [] OTHER                                 -> s

\* a || b on strings: the empty string (like undefined) is falsy
OrElse(a, b) == IF a # "" THEN a ELSE b

\* s.toUpperCase()
Upper(s) ==
    CASE s = "high"     -> "HIGH"
      [] s = "Medium"   -> "MEDIUM"
      [] s = "bogus"    -> "BOGUS"
      [] s = "inactive" -> "INACTIVE"
      [] OTHER          -> s

\* s.includes(sub), for the substrings the analyzer looks for
Includes(s, sub) ==
    CASE sub = "SecureBoot: Off" ->
            s \in {"SecureBoot: Off, vTPM: On"}
      [] sub = "All APIs (Full Access)" ->
            s \in {"All APIs (Full Access)"}
      [] sub = "cloud-platform" ->
            s \in {"cloud-platform",
                   "https://www.googleapis.com/auth/cloud-platform"}

\* s.startsWith('None')
StartsWithNone(s) == s \in {"None", "None (internal only)"}

\* row[col]; a column the row lacks reads as undefined
Undefined == "undefined"
Get(row, col) == IF col \in DOMAIN row THEN row[col] ELSE Undefined

\* row[col] || dflt
GetOr(row, col, dflt) ==
    IF Get(row, col) \in {Undefined, ""} THEN dflt ELSE Get(row, col)

--------------------------------------------------------------------------
(* DataProvider: calculateSummary *)

\* a loop that starts one element late
VisitedButFirst(fs) == DOMAIN fs \ {1}

\* the elements findings.forEach visits
Visited(fs) == DOMAIN fs

\* f.resource_type?.split('.')[0] || 'unknown'
ServiceOf(f) == OrElse(SplitDotFirst(f.resource_type), "unknown")

\* f.status === 'PASS' || f.finding_state === 'INACTIVE'
IsPassed(f) == f.status = "PASS" \/ f.finding_state = "INACTIVE"

\* a second test in place of the else
IsFailedByStatus(f) == f.status = "FAIL"

\* the else branch: failed++
IsFailed(f) == ~IsPassed(f)

\* bySeverity after the loop: the five keys it starts with, and every other
\* severity the loop meets (processFile hands on severities in upper case,
\* which no member of Object.prototype is)
BySeverity(fs) ==
    [s \in Severities \cup {fs[i].finding_severity : i \in Visited(fs)} |->
        Cardinality({i \in Visited(fs) : fs[i].finding_severity = s})]

\* the members every object literal inherits from Object.prototype, all of
\* them functions, and the accessor __proto__
ObjectPrototype ==
    {"constructor", "hasOwnProperty", "isPrototypeOf", "propertyIsEnumerable",
     "toLocaleString", "toString", "valueOf", "__defineGetter__",
     "__defineSetter__", "__lookupGetter__", "__lookupSetter__"}
Proto == "__proto__"

\* String(f) for the inherited function under key k
NativeCode(k) ==
    "function " \o (IF k = "constructor" THEN "Object" ELSE k) \o "() { [native code] }"

\* '1' appended n times
RECURSIVE Ones(_)
Ones(n) == IF n = 0 THEN "" ELSE Ones(n - 1) \o "1"

\* the table t = {} after t[k] = (t[k] || 0) + 1 for each key of keys: a key
\* read for the first time gives undefined, and so counts from 0, unless the
\* object inherits a member under it: the function found there is turned into
\* text and '1' appended each time; what is assigned to __proto__ is dropped
Tally(keys) ==
    [k \in {keys[i] : i \in DOMAIN keys} \ {Proto} |->
        IF k \in ObjectPrototype
        THEN NativeCode(k) \o Ones(Cardinality({i \in DOMAIN keys : keys[i] = k}))
        ELSE Cardinality({i \in DOMAIN keys : keys[i] = k})]

ByService(fs) == Tally([i \in Visited(fs) |-> ServiceOf(fs[i])])

FindingsByProject(fs) == Tally([i \in Visited(fs) |-> fs[i].resource_project])

\* sum of f over a finite set of keys
RECURSIVE SumOver(_, _)
SumOver(f, keys) ==
    IF keys = {} THEN 0
    ELSE LET k == CHOOSE x \in keys : TRUE
         IN f[k] + SumOver(f, keys \ {k})

\* riskPoints: count * weight over Object.entries(bySeverity)
RiskPoints(bySeverity) ==
    SumOver([s \in DOMAIN bySeverity |-> bySeverity[s] * SeverityWeight(s)],
            DOMAIN bySeverity)

\* findings.length * 10
MaxPoints(fs) == Len(fs) * 10

\* maxPoints > 0 ? Math.round((riskPoints / maxPoints) * 100) : 0
ThreatScore(riskPoints, maxPoints) ==
    IF maxPoints > 0
    THEN MathRound(MulInt(DivInt(riskPoints, maxPoints), 100))
    ELSE 0

\* what calculateSummary throws when SEVERITY_CONFIG has no entry for a key
\* of bySeverity (reading .weight of undefined)
TypeError == [thrown |-> "TypeError"]

calculateSummary(fs) ==
    LET bySeverity == BySeverity(fs)
    IN IF DOMAIN bySeverity # Severities THEN TypeError
       ELSE [total       |-> Len(fs),
             passed      |-> Cardinality({i \in Visited(fs) : IsPassed(fs[i])}),
             failed      |-> Cardinality({i \in Visited(fs) : IsFailed(fs[i])}),
             bySeverity  |-> bySeverity,
             byService   |-> ByService(fs),
             byProject   |-> FindingsByProject(fs),
             threatScore |-> ThreatScore(RiskPoints(bySeverity), MaxPoints(fs))]

--------------------------------------------------------------------------
(* ScansPage: processFile's complete callback, DataProvider: uploadFindings *)

\* row.snake || row['Alias'] || dflt
Field(row, snake, alias, dflt) == GetOr(row, snake, GetOr(row, alias, dflt))

\* new Date().toISOString() at the time of the upload
ScanTimeNow == "toISOString()"

\* the Finding built from row number i (from 1; its id is `finding-${i - 1}`)
MapRow(row, i) ==
    [id               |-> i - 1,
     finding_name     |-> Field(row, "finding_name", "Finding Name", ""),
     finding_category |-> GetOr(row, "finding_category",
                                Field(row, "Category", "Finding Category", "")),
     finding_severity |-> Upper(Field(row, "finding_severity", "Severity", "INFO")),
     finding_state    |-> Upper(Field(row, "finding_state", "State", "ACTIVE")),
     finding_class    |-> Field(row, "finding_class", "Finding Class", "MISCONFIGURATION"),
     status           |-> IF Get(row, "finding_state") = "INACTIVE" THEN "PASS" ELSE "FAIL",
     resource_name    |-> Field(row, "resource_name", "Resource Name", ""),
     resource_type    |-> Field(row, "resource_type", "Resource Type", ""),
     resource_project |-> Field(row, "resource_project", "Project", ""),
     resource_location |-> Field(row, "resource_location", "Location", ""),
     finding_description |-> Field(row, "finding_description", "Description", ""),
     remediation      |-> Field(row, "remediation", "Remediation", ""),
     compliance       |-> Field(row, "compliance", "Compliance", ""),
     scan_time        |-> Field(row, "scan_time", "Scan Time", ScanTimeNow)]

\* results.data.map((row, i) => ...)
MapRows(rs) == [i \in 1..Len(rs) |-> MapRow(rs[i], i)]

MAX_SCANS == 10

\* list.slice(0, MAX_SCANS)
SliceMax(list) == IF Len(list) <= MAX_SCANS THEN list ELSE SubSeq(list, 1, MAX_SCANS)

\* newScan of uploadFindings, Date.now() reading t (name and timestamp, which
\* nothing reads back, are left out)
NewScanOfFirst(fs, t) ==
    [id       |-> t,
     findings |-> [i \in 1..Len(fs) |-> [fs[i] EXCEPT !.id = i - 1]],
     summary  |-> calculateSummary(SubSeq(fs, 1, 1))]

NewScan(fs, t) ==
    [id       |-> t,
     findings |-> [i \in 1..Len(fs) |-> [fs[i] EXCEPT !.id = i - 1]],
     summary  |-> calculateSummary(fs)]

--------------------------------------------------------------------------
(* securityAnalyzer: analyzeSecurityData *)

\* `${r['Project ID']}/${r['Instance Name']}`
ResourceKey(r) == Get(r, "Project ID") \o "/" \o Get(r, "Instance Name")

\* 1. VMs without Shielded VM
NoShieldedVM(row) ==
    LET shielded == GetOr(row, "Shielded VM", "")
    IN Includes(shielded, "SecureBoot: Off") \/ shielded = "Not Configured"

\* the scope compared for equality instead of searched
FullApiAccessExact(row) ==
    LET scopes == GetOr(row, "API Access Scopes", "")
    IN scopes = "All APIs (Full Access)" \/ scopes = "cloud-platform"

\* 2. VMs with full API access
FullApiAccess(row) ==
    LET scopes == GetOr(row, "API Access Scopes", "")
    IN Includes(scopes, "All APIs (Full Access)") \/ Includes(scopes, "cloud-platform")

\* 3. VMs with External IPs
WithExternalIP(row) ==
    LET extIP == GetOr(row, "External IP", "")
    IN extIP # "" /\ ~StartsWithNone(extIP)

\* 4. VMs without OS Agent
NoOSAgent(row) == GetOr(row, "OS Agent Installed", "") = "No"

\* 5. VMs without Deletion Protection
NoDeletionProtection(row) == GetOr(row, "Deletion Protection", "") = "No"

\* 6. VMs with IP Forwarding enabled
IpForwardingEnabled(row) == GetOr(row, "IP Forwarding", "") = "Enabled"

\* 7. Confidential VM not enabled
NoConfidentialVM(row) == GetOr(row, "Confidential VM", "") = "Disabled"

\* the predicates by their position in the analyzer
Matches(k, row) ==
    CASE k = 1 -> NoShieldedVM(row)
      [] k = 2 -> FullApiAccess(row)
      [] k = 3 -> WithExternalIP(row)
      [] k = 4 -> NoOSAgent(row)
      [] k = 5 -> NoDeletionProtection(row)
      [] k = 6 -> IpForwardingEnabled(row)
      [] k = 7 -> NoConfidentialVM(row)

IssueSeverity(k) ==
    CASE k = 1 -> "high"
      [] k = 2 -> "critical"
      [] k = 3 -> "medium"
      [] k = 4 -> "low"
      [] k = 5 -> "low"
      [] k = 6 -> "medium"
      [] k = 7 -> "low"

IssueTitle(k) ==
    CASE k = 1 -> "Shielded VM Disabled"
      [] k = 2 -> "Full API Access Granted"
      [] k = 3 -> "External IP Assigned"
      [] k = 4 -> "OS Agent Not Installed"
      [] k = 5 -> "Deletion Protection Disabled"
      [] k = 6 -> "IP Forwarding Enabled"
      [] k = 7 -> "Confidential VM Not Used"

\* data.filter(predicate k): the matching rows, in input order
RECURSIVE Filter(_, _)
Filter(rs, k) ==
    IF rs = <<>> THEN <<>>
    ELSE IF Matches(k, Head(rs)) THEN <<Head(rs)>> \o Filter(Tail(rs), k)
         ELSE Filter(Tail(rs), k)

\* rows.map(r => key of r)
Keys(rs) == [i \in 1..Len(rs) |-> ResourceKey(rs[i])]

\* the number of entries the Confidential VM issue lists
ConfidentialListed == 10

\* the list left whole
Unsliced(rs) == rs

\* matched.slice(0, 10)
Slice10(rs) ==
    IF Len(rs) <= ConfidentialListed THEN rs ELSE SubSeq(rs, 1, ConfidentialListed)

\* x > y for an integer x >= 0 and a number y >= 0
IntGreater(x, y) == LessMag(y, FromInt(x))

\* the literal 0.8
ZeroPointEight == DivInt(4, 5)

\* an issue pushed whether or not a record matched
TriggeredAlways(k, matched, total) == Len(matched) >= 0

\* the Confidential VM threshold taken inclusive
TriggeredAtThreshold(k, matched, total) ==
    IF k = 7
    THEN ~LessMag(FromInt(Len(matched)), MulInt(ZeroPointEight, total))
    ELSE Len(matched) > 0

\* whether predicate k's matches are pushed as an issue
Triggered(k, matched, total) ==
    IF k = 7
    THEN IntGreater(Len(matched), MulInt(ZeroPointEight, total))
    ELSE Len(matched) > 0

\* the issue pushed for predicate k (the description, a fixed text, is left out)
Issue(k, matched) ==
    [severity          |-> IssueSeverity(k),
     title             |-> IssueTitle(k),
     count             |-> Len(matched),
     affectedResources |-> IF k = 7 THEN Keys(Slice10(matched)) ELSE Keys(matched)]

\* issues, in the order the analyzer pushes them: predicates k..7
RECURSIVE Pushed(_, _)
Pushed(rs, k) ==
    IF k > 7 THEN <<>>
    ELSE LET matched == Filter(rs, k)
         IN (IF Triggered(k, matched, Len(rs)) THEN <<Issue(k, matched)>> ELSE <<>>)
            \o Pushed(rs, k + 1)

\* severityOrder
SeverityOrder(sev) ==
    CASE sev = "critical" -> 0
      [] sev = "high"     -> 1
      [] sev = "medium"   -> 2
      [] sev = "low"      -> 3

\* the issues of rank r, in the order they have in issues
RECURSIVE OfRank(_, _)
OfRank(issues, r) ==
    IF issues = <<>> THEN <<>>
    ELSE IF SeverityOrder(Head(issues).severity) = r
         THEN <<Head(issues)>> \o OfRank(Tail(issues), r)
         ELSE OfRank(Tail(issues), r)

\* each rank reversed
RECURSIVE Reversed(_)
Reversed(q) == IF q = <<>> THEN <<>> ELSE Reversed(Tail(q)) \o <<Head(q)>>

\* a sort that orders by rank but does not keep the order of equal ranks
SortUnstable(issues) ==
    Reversed(OfRank(issues, 0)) \o Reversed(OfRank(issues, 1))
    \o Reversed(OfRank(issues, 2)) \o Reversed(OfRank(issues, 3))

\* issues.sort((a, b) => severityOrder[a.severity] - severityOrder[b.severity]):
\* Array.prototype.sort is stable
SortBySeverity(issues) ==
    OfRank(issues, 0) \o OfRank(issues, 1) \o OfRank(issues, 2) \o OfRank(issues, 3)

\* weight of an issue in the score
IssueWeight(sev) ==
    CASE sev = "critical" -> 15
      [] sev = "high"     -> 10
      [] sev = "medium"   -> 5
      [] OTHER            -> 2

\* Math.min(weight * (issue.count / data.length) * 10, weight * 3)
Deduction(issue, total) ==
    LET weight == IssueWeight(issue.severity)
    IN MathMin(MulInt(MulInt(DivInt(issue.count, total), weight), 10),
               FromInt(weight * 3))

\* issues.forEach(issue => score -= ...)
RECURSIVE Deduct(_, _, _)
Deduct(score, issues, total) ==
    IF issues = <<>> THEN score
    ELSE Deduct(Sub(score, Deduction(Head(issues), total)), Tail(issues), total)

\* Math.max(0, Math.round(score)) after the deductions from 100
SecurityScore(issues, total) ==
    MathMax0(MathRound(Deduct(FromInt(100), issues, total)))

\* the count table of column col, with 'Unknown' for a missing or empty cell
CountBy(rs, col) == Tally([i \in 1..Len(rs) |-> GetOr(rs[i], col, "Unknown")])

\* data.filter(r => r['Status'] === status).length
CountStatus(rs, status) ==
    Cardinality({i \in 1..Len(rs) : Get(rs[i], "Status") = status})

analyzeSecurityData(rs) ==
    LET issues == SortBySeverity(Pushed(rs, 1))
    IN [totalResources   |-> Len(rs),
        runningInstances |-> CountStatus(rs, "RUNNING"),
        stoppedInstances |-> CountStatus(rs, "STOPPED"),
        securityScore    |-> SecurityScore(issues, Len(rs)),
        issues           |-> issues,
        byProject        |-> CountBy(rs, "Project ID"),
        byStatus         |-> CountBy(rs, "Status"),
        byZone           |-> CountBy(rs, "Zone")]

--------------------------------------------------------------------------
(* inputs *)

\* longest finding collection handed to calculateSummary
MaxFindings == 4
\* longest inventory of mixed rows
MaxInventory == 4
\* largest fleet: clean rows and rows of one other kind
MaxFleet == 12

\* all sequences over S of length at most n
SeqsUpTo(S, n) == UNION {[1..k -> S] : k \in 0..n}

Finding(sev, state, status, rtype, project) ==
    [id |-> 0, finding_name |-> "", finding_severity |-> sev, finding_state |-> state, status |-> status,
     resource_type |-> rtype, resource_project |-> project]

\* findings as processFile builds them; the last one carries a severity cell
\* that is not one of the five
SampleFindings ==
    {Finding("CRITICAL", "ACTIVE",   "FAIL", "storage.googleapis.com/Bucket",   "proj1"),
     Finding("HIGH",     "ACTIVE",   "FAIL", "compute.googleapis.com/Instance", "proj1"),
     Finding("MEDIUM",   "INACTIVE", "PASS", "compute.googleapis.com/Instance", "proj2"),
     Finding("LOW",      "INACTIVE", "FAIL", "",                                "proj2"),
     Finding("INFO",     "MUTED",    "FAIL", "storage.googleapis.com/Bucket",   ""),
     Finding("BOGUS",    "ACTIVE",   "FAIL", ".hidden",                         "proj1")}

Row(project, name, status, zone, shielded, scopes, extIP, agent, del, fwd, conf) ==
    ("Project ID" :> project) @@ ("Instance Name" :> name) @@ ("Status" :> status)
    @@ ("Zone" :> zone) @@ ("Shielded VM" :> shielded)
    @@ ("API Access Scopes" :> scopes) @@ ("External IP" :> extIP)
    @@ ("OS Agent Installed" :> agent) @@ ("Deletion Protection" :> del)
    @@ ("IP Forwarding" :> fwd) @@ ("Confidential VM" :> conf)

\* nothing to report
CleanRow ==
    Row("p1", "vm-clean", "RUNNING", "us-central1-a", "SecureBoot: On, vTPM: On",
        "default", "None", "Yes", "Yes", "Disabled", "Enabled")

\* public address, no agent, no deletion protection, no confidential computing
ExposedRow ==
    Row("p1", "vm-exposed", "RUNNING", "us-central1-b", "SecureBoot: On, vTPM: On",
        "default", "34.1.2.3", "No", "No", "Disabled", "Disabled")

\* full API scope and nothing else
FullApiRow ==
    Row("p2", "vm-api", "STOPPED", "us-central1-a", "SecureBoot: On, vTPM: On",
        "cloud-platform", "None (internal only)", "Yes", "Yes", "Disabled", "Enabled")

\* scope given as a URL, secure boot off, forwarding on, no zone
UrlScopeRow ==
    Row("p2", "vm-url", "TERMINATED", "", "SecureBoot: Off, vTPM: On",
        "https://www.googleapis.com/auth/cloud-platform", "", "Yes", "Yes",
        "Enabled", "Disabled")

\* a row of an export that lacks most columns
SparseRow ==
    ("Instance Name" :> "vm-legacy") @@ ("Shielded VM" :> "Not Configured")
    @@ ("API Access Scopes" :> "All APIs (Full Access)")
    @@ ("Confidential VM" :> "Disabled")

SampleRows == {CleanRow, ExposedRow, FullApiRow, UrlScopeRow, SparseRow}

\* k rows like row followed by n - k clean ones
Fleet(row, k, n) == [i \in 1..n |-> IF i <= k THEN row ELSE CleanRow]

Fleets(row) == UNION {{Fleet(row, k, n) : k \in 0..n} : n \in 1..MaxFleet}

Inventories ==
    SeqsUpTo(SampleRows, MaxInventory) \cup Fleets(ExposedRow) \cup Fleets(FullApiRow)

CsvRow(name, sevCol, sev, stateCol, state, rtype, project) ==
    ("Finding Name" :> name) @@ (sevCol :> sev) @@ (stateCol :> state)
    @@ ("resource_type" :> rtype) @@ ("Project" :> project)

\* rows as Papa hands them over: snake_case or natural-language headers,
\* cells in either letter case, empty cells, a severity outside the five
RowDone     == CsvRow("r1", "finding_severity", "CRITICAL", "finding_state", "INACTIVE",
                      "storage.googleapis.com/Bucket", "proj1")
RowLower    == CsvRow("r2", "finding_severity", "high", "finding_state", "inactive",
                      "compute.googleapis.com/Instance", "proj1")
RowNatural  == CsvRow("r3", "Severity", "Medium", "State", "INACTIVE",
                      "compute.googleapis.com/Instance", "proj2")
RowBogus    == CsvRow("r4", "Severity", "bogus", "State", "ACTIVE", "", "proj2")
RowEmpty    == CsvRow("r5", "finding_severity", "", "finding_state", "", "", "")
RowOpen     == CsvRow("r6", "finding_severity", "LOW", "finding_state", "ACTIVE",
                      "storage.googleapis.com/Bucket", "proj1")
RowNameOnly == ("Finding Name" :> "r7")
\* the severity under a header in words, and under a lower-case one
RowSpaced   == CsvRow("r8", "Finding Severity", "CRITICAL", "finding_state", "ACTIVE",
                      "storage.googleapis.com/Bucket", "proj1")
RowSmall    == CsvRow("r9", "severity", "LOW", "finding_state", "ACTIVE",
                      "storage.googleapis.com/Bucket", "proj1")
\* a line of separators only: every cell is there and empty
RowBlank    == CsvRow("", "finding_severity", "", "finding_state", "", "", "")

\* results.data of the files uploaded
SampleFiles ==
    {<<>>, <<RowDone>>, <<RowLower>>, <<RowNatural>>, <<RowBogus>>, <<RowEmpty>>,
     <<RowOpen>>, <<RowNameOnly>>, <<RowDone, RowOpen>>, <<RowOpen, RowBogus>>,
     <<RowNatural, RowDone>>, <<RowLower, RowEmpty>>, <<RowBlank>>,
     <<RowDone, RowBlank>>, <<RowSpaced>>, <<RowSmall>>}

\* uploads in a run
MaxUploads == 2

FindingRow(category, severity, name) ==
    ("finding_category" :> category) @@ ("finding_severity" :> severity)
    @@ ("resource_name" :> name) @@ ("resource_type" :> "storage.googleapis.com/Bucket")
    @@ ("resource_project" :> "proj1")

\* rows under the headers parseCSV (findings) produces: complete, lacking a
\* category, a severity or both, in the legacy format, blank
RowComplete   == FindingRow("PUBLIC_BUCKET_ACL", "HIGH", "bucket-1")
RowNoCategory == FindingRow("", "LOW", "bucket-2")
RowNoSeverity == FindingRow("OPEN_FIREWALL", "", "fw-1")
RowNeither    == FindingRow("", "", "vm-1")
RowLegacy     == ("category" :> "OPEN_SSH_PORT") @@ ("severity" :> "MEDIUM")
                 @@ ("resource" :> "fw-2")
RowHalfLegacy == ("category" :> "OPEN_RDP_PORT") @@ ("resource" :> "fw-3")
RowAllEmpty   == FindingRow("", "", "")
RowSpaces     == ("finding_category" :> " ") @@ ("finding_severity" :> "  ")

SampleRecords ==
    {RowComplete, RowNoCategory, RowNoSeverity, RowNeither, RowLegacy,
     RowHalfLegacy}

\* rows given to validateCSVData
MaxRecords == 3

--------------------------------------------------------------------------
(* the row filter of the two parseCSV *)

\* String.prototype.trim on the cells that occur
Trim(s) == CASE s = " " -> "" [] s = "  " -> "" [] OTHER -> s

\* val && val.toString().trim() !== ''
NonBlank(val) == val # "" /\ val # Undefined /\ Trim(val) # ""

\* Object.values(row).some(...)
HasValue(row) == \E col \in DOMAIN row : NonBlank(row[col])

\* data.filter(row => Object.values(row).some(...))
FilterRows(rs) == SelectSeq(rs, HasValue)

--------------------------------------------------------------------------
(* csvParser for findings: parseCSV and validateCSVData *)

REQUIRED_COLUMNS ==
    <<"finding_category", "finding_severity", "resource_name", "resource_type",
      "resource_project">>

\* header.trim().toLowerCase().replace(/ /g, '_') on the headers that occur
transformHeader(header) ==
    CASE header = "Finding Name"     -> "finding_name"
      [] header = "Finding Severity" -> "finding_severity"
      [] header = "Severity"         -> "severity"
      [] header = "State"            -> "state"
      [] header = "Project"          -> "project"
      [] OTHER                       -> header

\* value?.toString() || ''
Transformed(row) ==
    [col \in DOMAIN row |-> IF row[col] = Undefined THEN "" ELSE row[col]]

TransformedRows(rs) == [i \in DOMAIN rs |-> Transformed(rs[i])]

\* REQUIRED_COLUMNS.filter(col => !columns.includes(col)) on the first row
MissingColumns(rs) ==
    SelectSeq(REQUIRED_COLUMNS, LAMBDA col : col \notin DOMAIN rs[1])

\* the diagnostics of the complete callback, in the order of the pushes; the
\* list of missing columns stands for the message that joins them
ParseDiagnostics(results) ==
    (IF Len(results.data) > 0 /\ Len(MissingColumns(results.data)) > 0
        THEN <<[type |-> "warning", message |-> "Missing recommended columns",
                columns |-> MissingColumns(results.data)]>>
        ELSE <<>>)
    \o (IF Len(FilterRows(TransformedRows(results.data))) = 0
        THEN <<[type |-> "error",
                message |-> "No valid data rows found in CSV file"]>>
        ELSE <<>>)
    \o [i \in DOMAIN results.errors |->
            [type |-> "warning", message |-> results.errors[i].message,
             row |-> results.errors[i].row]]

\* parseCSV (findings): what the promise resolves to on results
parseCSV(results) ==
    [data |-> FilterRows(TransformedRows(results.data)),
     errors |-> ParseDiagnostics(results)]

\* !row.finding_category && !row.category
LacksCategory(row) ==
    /\ Get(row, "finding_category") \in {Undefined, ""}
    /\ Get(row, "category") \in {Undefined, ""}

\* !row.finding_severity && !row.severity
LacksSeverity(row) ==
    /\ Get(row, "finding_severity") \in {Undefined, ""}
    /\ Get(row, "severity") \in {Undefined, ""}

\* the row number a diagnostic of data[index] carries, index counted from 0
RowNumberFromOne(index) == index + 1
RowNumber(index) == index + 2

\* the pushes of one forEach step; i is the 1-based position, index + 1
RowDiagnostics(row, i) ==
    (IF LacksCategory(row)
        THEN <<[type |-> "warning", message |-> "Missing finding category",
                row |-> RowNumber(i - 1)]>>
        ELSE <<>>)
    \o (IF LacksSeverity(row)
        THEN <<[type |-> "warning", message |-> "Missing severity level",
                row |-> RowNumber(i - 1)]>>
        ELSE <<>>)

RECURSIVE validateUpTo(_, _)
validateUpTo(rs, n) ==
    IF n = 0 THEN <<>>
    ELSE validateUpTo(rs, n - 1) \o RowDiagnostics(rs[n], n)

\* validateCSVData (findings)
validateCSVData(rs) == validateUpTo(rs, Len(rs))

--------------------------------------------------------------------------
(* csvParser for resources: parseCSV and validateCSVData *)

\* results.errors.map(err => ({type, message, row}))
MappedErrors(errs) ==
    [i \in DOMAIN errs |->
        [type |-> errs[i].type, message |-> errs[i].message, row |-> errs[i].row]]

\* parseCSV (resources): what the promise resolves to on results
parseCSVResources(results) ==
    [data |-> FilterRows(results.data),
     errors |-> MappedErrors(results.errors),
     meta |-> [rowCount |-> Len(FilterRows(results.data))]]

requiredColumns == <<"Project ID", "Instance Name", "Status">>

\* one MissingColumn for each required column that is not in the first row;
\* the column stands for the message that quotes it
MissingColumnErrors(firstRow) ==
    LET missing == SelectSeq(requiredColumns, LAMBDA col : col \notin DOMAIN firstRow)
    IN  [i \in DOMAIN missing |->
            [type |-> "MissingColumn", message |-> "Required column is missing",
             column |-> missing[i]]]

\* validateCSVData (resources)
validateCSVDataResources(rs) ==
    IF Len(rs) = 0
    THEN <<[type |-> "EmptyData",
            message |-> "The CSV file contains no data rows."]>>
    ELSE MissingColumnErrors(rs[1])

--------------------------------------------------------------------------
(* dataStore *)

\* scans.unshift(newScan); scans.slice(0, 10)
KeepLast == 10

TrimmedFromFront(list) ==
    SubSeq(list, IF Len(list) < KeepLast THEN 1 ELSE Len(list) - KeepLast + 1, Len(list))
Trimmed(list) == SubSeq(list, 1, IF Len(list) < KeepLast THEN Len(list) ELSE KeepLast)

\* saveScan: newScan
StoredScan(fs, t) == [id |-> t, findingsCount |-> Len(fs), findings |-> fs]

\* what the two setItem of saveScan may do: both written, the first throws
\* (nothing written), the second throws (the list written, not the id)
WriteOutcomes == {"written", "list write fails", "id write fails"}

\* saveScan(fs) at time t with the writes ending as outcome
SaveScan(fs, t, outcome) ==
    /\ lsScans' = IF outcome = "list write fails" THEN lsScans
                  ELSE Trimmed(<<StoredScan(fs, t)>> \o lsScans)
    /\ lsCurrent' = IF outcome = "written" THEN t ELSE lsCurrent

--------------------------------------------------------------------------
(* the upload page *)

AnalysisIdle ==
    /\ sfindings = <<>> /\ summary = None /\ data = <<>> /\ metrics = None

\* what the callbacks of the first render close over
FirstRender == [scans |-> <<>>, currentScan |-> None]

IngestIdle ==
    /\ rows = <<>> /\ isUploading = FALSE /\ error = Null /\ findings = <<>>
    /\ scans = <<>> /\ currentScan = None /\ storage = <<>> /\ now = 0
    /\ closure = FirstRender

\* a file's name and size, as far as the handlers look at them
Files == [csv : BOOLEAN, big : BOOLEAN]

NoFile == [csv |-> TRUE, big |-> FALSE]

PagesIdle ==
    /\ isLoading = FALSE /\ uploadError = Null /\ warnings = <<>>
    /\ parseErrors = <<>> /\ success = Null /\ isLoaded = FALSE
    /\ lsScans = <<>> /\ lsCurrent = NoId
    /\ homeScans = <<>> /\ currentScanData = None
    /\ records = <<>> /\ diagnostics = <<>>
    /\ deleted = NoId

UploaderIdle ==
    /\ PagesIdle
    /\ exported = <<>> /\ csv = <<>>

InitIngest ==
    /\ IngestIdle
    /\ pc = "idle"
    /\ file = NoFile /\ invoked = FALSE
    /\ AnalysisIdle
    /\ UploaderIdle

\* processFile(file), up to the parser being started
ProcessFile ==
    /\ pc = "idle"
    /\ Len(scans) < MaxUploads
    /\ isUploading' = TRUE
    /\ error' = Null
    /\ pc' = "parsing"
    /\ invoked' = FALSE
    /\ UNCHANGED <<rows, findings, scans, currentScan, storage, now,
                   sfindings, summary, data, metrics, uploaderVars>>

\* the complete callback on results.data = file: the mapping, then
\* uploadFindings inside the try
CompleteWith(results) ==
    /\ rows' = results
    /\ findings' = MapRows(results)
    /\ isUploading' = FALSE
    /\ pc' = "idle"
    /\ IF Len(MapRows(results)) = 0
       THEN /\ error' = "No valid findings found in CSV"
            /\ UNCHANGED <<scans, currentScan, storage, now, invoked>>
       ELSE IF calculateSummary(MapRows(results)) = TypeError
       THEN /\ error' = "Failed to parse CSV file"
            /\ invoked' = TRUE
            /\ UNCHANGED <<scans, currentScan, storage, now>>
       ELSE \E t \in {now, now + 1} :
            /\ now' = t
            /\ invoked' = TRUE
            /\ scans' = SliceMax(<<NewScan(MapRows(results), t)>> \o scans)
            /\ storage' = scans'
            /\ currentScan' = NewScan(MapRows(results), t)
            /\ UNCHANGED error
    /\ UNCHANGED <<sfindings, summary, data, metrics, file, uploaderVars>>

\* Papa's complete callback
Complete ==
    /\ pc = "parsing"
    /\ \E results \in SampleFiles : CompleteWith(results)

\* Papa's error callback
ReadError ==
    /\ pc = "parsing"
    /\ error' = "Failed to read file"
    /\ isUploading' = FALSE
    /\ pc' = "idle"
    /\ UNCHANGED <<rows, findings, scans, currentScan, storage, now,
                   sfindings, summary, data, metrics, file, invoked,
                   uploaderVars>>

\* handleDrop: the dropped file is processed only under a name ending in .csv
HandleDrop ==
    \E f \in Files :
        /\ file' = f
        /\ IF f.csv
           THEN ProcessFile
           ELSE /\ pc = "idle"
                /\ error' = "Please upload a CSV file"
                /\ invoked' = FALSE
                /\ UNCHANGED <<rows, isUploading, findings, scans, currentScan,
                               storage, now, sfindings, summary, data, metrics,
                               pc, uploaderVars>>

\* handleFileInput: whatever file was chosen is processed
HandleFileInput ==
    \E f \in Files :
        /\ file' = f
        /\ ProcessFile

NextIngest == HandleDrop \/ HandleFileInput \/ Complete \/ ReadError

SpecIngest == InitIngest /\ [][NextIngest]_vars

--------------------------------------------------------------------------
(* the two CSVUploader components, each in its page *)

PapaError == [type |-> "FieldMismatch", message |-> "Too few fields", row |-> 1]

\* what Papa hands to complete for the findings files uploaded
FindingResults ==
    {[data |-> d, errors |-> e] :
        d \in {<<>>, <<RowComplete>>, <<RowNeither>>, <<RowLegacy>>,
               <<RowAllEmpty>>, <<RowSpaces>>, <<RowComplete, RowAllEmpty>>,
               <<RowAllEmpty, RowNoCategory>>, <<RowHalfLegacy, RowLegacy>>},
        e \in {<<>>, <<PapaError>>}}

BlankRow == [col \in DOMAIN CleanRow |-> ""]

\* what Papa hands to complete for the inventory files uploaded
ResourceResults ==
    {[data |-> d, errors |-> e] :
        d \in {<<>>, <<CleanRow>>, <<ExposedRow, CleanRow>>, <<SparseRow>>,
               <<SparseRow, CleanRow>>, <<BlankRow>>, <<BlankRow, ExposedRow>>},
        e \in {<<>>, <<PapaError>>}}

InitUpload ==
    /\ IngestIdle
    /\ AnalysisIdle
    /\ UploaderIdle
    /\ file = NoFile /\ invoked = FALSE
    /\ pc \in {"findings", "resources"}

\* handleFile (findings), up to the await
HandleFile ==
    /\ pc = "findings"
    /\ Len(lsScans) < MaxUploads /\ now < MaxUploads
    /\ \E f \in Files :
        /\ file' = f
        /\ invoked' = FALSE
        /\ IF ~f.csv
           THEN /\ uploadError' = "Please upload a CSV file"
                /\ UNCHANGED <<isLoading, warnings, pc>>
           ELSE IF f.big
           THEN /\ uploadError' = "File size exceeds 50MB limit"
                /\ UNCHANGED <<isLoading, warnings, pc>>
           ELSE /\ isLoading' = TRUE
                /\ uploadError' = Null
                /\ warnings' = <<>>
                /\ pc' = "findings parsing"
    /\ UNCHANGED <<rows, isUploading, error, findings, scans, currentScan,
                   storage, now, sfindings, summary, data, metrics,
                   parseErrors, success, isLoaded, lsScans, lsCurrent,
                   homeScans, currentScanData, records, diagnostics, restVars>>

IsCritical(e) == e.type = "error"
IsWarning(e) == e.type = "warning"

\* Home.handleDataLoaded (findings): saveScan, then the list read back
HandleDataLoaded(fs) ==
    \E t \in {now, now + 1} : \E outcome \in WriteOutcomes :
        /\ now' = t
        /\ SaveScan(fs, t, outcome)
        /\ homeScans' = lsScans'
        /\ currentScanData' = StoredScan(fs, t)

\* handleFile (findings) after the await, parseCSV having resolved on results
ResolvedWith(results) ==
    LET result == parseCSV(results)
        validationErrors == validateCSVData(result.data)
        all == result.errors \o validationErrors
        criticalErrors == SelectSeq(all, IsCritical)
    IN  /\ records' = result.data
        /\ diagnostics' = validationErrors
        /\ isLoading' = FALSE
        /\ pc' = "findings"
        /\ IF Len(criticalErrors) > 0
           THEN /\ uploadError' = criticalErrors[1].message
                /\ UNCHANGED <<warnings, invoked, now, lsScans, lsCurrent,
                               homeScans, currentScanData>>
           ELSE /\ warnings' = SelectSeq(all, IsWarning)
                /\ IF Len(result.data) = 0
                   THEN /\ uploadError' = "No valid data found in CSV file"
                        /\ UNCHANGED <<invoked, now, lsScans, lsCurrent,
                                       homeScans, currentScanData>>
                   ELSE /\ invoked' = TRUE
                        /\ HandleDataLoaded(result.data)
                        /\ UNCHANGED uploadError
        /\ UNCHANGED <<rows, isUploading, error, findings, scans, currentScan,
                       storage, sfindings, summary, data, metrics, file,
                       parseErrors, success, isLoaded, restVars>>

Resolved ==
    /\ pc = "findings parsing"
    /\ \E results \in FindingResults : ResolvedWith(results)

\* handleFile (findings) after the await, parseCSV having rejected
Rejected ==
    /\ pc = "findings parsing"
    /\ uploadError' = "Failed to parse CSV"
    /\ isLoading' = FALSE
    /\ pc' = "findings"
    /\ UNCHANGED <<rows, isUploading, error, findings, scans, currentScan,
                   storage, now, sfindings, summary, data, metrics, file,
                   invoked, warnings, parseErrors, success, isLoaded, lsScans,
                   lsCurrent, homeScans, currentScanData, records, diagnostics, restVars>>

\* handleFile (resources), up to the await
HandleFileResources ==
    /\ pc = "resources"
    /\ \E f \in Files :
        /\ file' = f
        /\ invoked' = FALSE
        /\ success' = Null
        /\ parseErrors' = <<>>
        /\ IF ~f.csv
           THEN /\ uploadError' = "Please upload a CSV file. The selected file is not a valid CSV format."
                /\ UNCHANGED <<isLoading, pc>>
           ELSE IF f.big
           THEN /\ uploadError' = "File size exceeds 50MB limit. Please upload a smaller file."
                /\ UNCHANGED <<isLoading, pc>>
           ELSE /\ uploadError' = Null
                /\ isLoading' = TRUE
                /\ pc' = "resources parsing"
    /\ UNCHANGED <<rows, isUploading, error, findings, scans, currentScan,
                   storage, now, sfindings, summary, data, metrics, warnings,
                   isLoaded, lsScans, lsCurrent, homeScans, currentScanData,
                   records, diagnostics, restVars>>

IsFatalType(e) == e.type \in {"MissingColumn", "EmptyData"}

\* handleFile (resources) after the await, parseCSV having resolved on
\* results; onDataLoaded is Home.handleDataLoaded (resources) and metrics the
\* memo on data
ResourcesResolvedWith(results) ==
    LET result == parseCSVResources(results)
        validationErrors == validateCSVDataResources(result.data)
    IN  /\ records' = result.data
        /\ diagnostics' = validationErrors
        /\ parseErrors' = result.errors \o validationErrors
        /\ isLoading' = FALSE
        /\ pc' = "resources"
        /\ IF Len(SelectSeq(validationErrors, IsFatalType)) > 0
           THEN /\ uploadError' = "CSV validation failed. Please check the errors below."
                /\ UNCHANGED <<success, invoked, data, metrics, isLoaded>>
           ELSE /\ success' = "Successfully loaded"
                /\ invoked' = TRUE
                /\ data' = result.data
                /\ metrics' = analyzeSecurityData(result.data)
                /\ isLoaded' = TRUE
                /\ UNCHANGED uploadError
        /\ UNCHANGED <<rows, isUploading, error, findings, scans, currentScan,
                       storage, now, sfindings, summary, file, warnings,
                       lsScans, lsCurrent, homeScans, currentScanData,
                       restVars>>

ResourcesResolved ==
    /\ pc = "resources parsing"
    /\ \E results \in ResourceResults : ResourcesResolvedWith(results)

\* handleFile (resources) after the await, parseCSV having rejected
ResourcesRejected ==
    /\ pc = "resources parsing"
    /\ uploadError' = "Failed to parse CSV"
    /\ isLoading' = FALSE
    /\ pc' = "resources"
    /\ UNCHANGED <<rows, isUploading, error, findings, scans, currentScan,
                   storage, now, sfindings, summary, data, metrics, file,
                   invoked, warnings, parseErrors, success, isLoaded, lsScans,
                   lsCurrent, homeScans, currentScanData, records, diagnostics, restVars>>

NextUpload ==
    \/ HandleFile \/ Resolved \/ Rejected
    \/ HandleFileResources \/ ResourcesResolved \/ ResourcesRejected

SpecUpload == InitUpload /\ [][NextUpload]_vars

\* the three upload pages, the parser calling back in the end: a started
\* parse is followed by its completion or its error callback, an awaited
\* parseCSV by its resolution or rejection
InitPages == InitIngest \/ InitUpload

NextPages == NextIngest \/ NextUpload

SpecPages ==
    /\ InitPages
    /\ [][NextPages]_vars
    /\ WF_vars(Complete \/ ReadError)
    /\ WF_vars(Resolved \/ Rejected)
    /\ WF_vars(ResourcesResolved \/ ResourcesRejected)

--------------------------------------------------------------------------
(* the two scan stores under saves and deletions *)

\* saves in a run, one more than a store holds
MaxSaves == 11

\* the findings saved: one finding built by processFile, one row handed on
\* by CSVUploader
SavedFindings == MapRows(<<RowOpen>>)
SavedRecords == <<RowComplete>>

InitStore ==
    /\ IngestIdle
    /\ AnalysisIdle
    /\ UploaderIdle
    /\ file = NoFile /\ invoked = FALSE
    /\ pc \in {"DataProvider", "dataStore"}

\* s => s.id !== scanId
RECURSIVE WithoutId(_, _)
WithoutId(list, id) ==
    IF list = <<>> THEN <<>>
    ELSE IF Head(list).id = id THEN WithoutId(Tail(list), id)
    ELSE <<Head(list)>> \o WithoutId(Tail(list), id)

\* DataProvider.uploadFindings at a later millisecond than the save before
UploadFindings ==
    /\ pc = "DataProvider"
    /\ now < MaxSaves
    /\ now' = now + 1
    /\ scans' = SliceMax(<<NewScan(SavedFindings, now + 1)>> \o scans)
    /\ storage' = scans'
    /\ currentScan' = NewScan(SavedFindings, now + 1)
    /\ UNCHANGED <<rows, isUploading, error, findings, sfindings, summary,
                   data, metrics, pc, file, invoked, uploaderVars>>

\* DataProvider.deleteScan(scanId) for a stored scan
DeleteScan ==
    /\ pc = "DataProvider"
    /\ \E j \in DOMAIN scans :
        LET scanId == scans[j].id
        IN  /\ scans' = WithoutId(scans, scanId)
            /\ storage' = scans'
            /\ currentScan' =
                  IF currentScan # None /\ currentScan.id = scanId
                  THEN IF WithoutId(scans, scanId) = <<>> THEN None
                       ELSE Head(WithoutId(scans, scanId))
                  ELSE currentScan
    /\ UNCHANGED <<rows, isUploading, error, findings, now, sfindings, summary,
                   data, metrics, pc, file, invoked, uploaderVars>>

\* dataStore.saveScan at a later millisecond than the save before
StoreSaveScan ==
    /\ pc = "dataStore"
    /\ now < MaxSaves
    /\ now' = now + 1
    /\ \E outcome \in WriteOutcomes : SaveScan(SavedRecords, now + 1, outcome)
    /\ UNCHANGED <<rows, isUploading, error, findings, scans, currentScan,
                   storage, sfindings, summary, data, metrics, pc, file,
                   invoked, isLoading, uploadError, warnings, parseErrors,
                   success, isLoaded, homeScans, currentScanData, records,
                   diagnostics, restVars>>

\* dataStore.deleteScan(id) for a stored scan
StoreDeleteScan ==
    /\ pc = "dataStore"
    /\ \E j \in DOMAIN lsScans :
        LET id == lsScans[j].id
        IN  /\ lsScans' = WithoutId(lsScans, id)
            /\ lsCurrent' =
                  IF lsCurrent = id /\ Len(WithoutId(lsScans, id)) > 0
                  THEN WithoutId(lsScans, id)[1].id
                  ELSE lsCurrent
    /\ UNCHANGED <<rows, isUploading, error, findings, scans, currentScan,
                   storage, now, sfindings, summary, data, metrics, pc, file,
                   invoked, isLoading, uploadError, warnings, parseErrors,
                   success, isLoaded, homeScans, currentScanData, records,
                   diagnostics, restVars>>

NextStore == UploadFindings \/ DeleteScan \/ StoreSaveScan \/ StoreDeleteScan

SpecStore == InitStore /\ [][NextStore]_vars

\* ---------------------------------------------------------------------------
\* DataProvider behind the scans page: the callbacks selectScan and
\* deleteScan read the scans and currentScan of the render that made them
\* ---------------------------------------------------------------------------

\* list.find(s => s.id === id) || null
RECURSIVE Find(_, _)
Find(list, id) ==
    IF list = <<>> THEN None
    ELSE IF Head(list).id = id THEN Head(list)
    ELSE Find(Tail(list), id)

\* list.find(s => s.id !== id) || null
FindOther(list, id) ==
    IF WithoutId(list, id) = <<>> THEN None ELSE Head(WithoutId(list, id))

\* a render: the callbacks are made again over the state of the moment
Render ==
    /\ closure # [scans |-> scans, currentScan |-> currentScan]
    /\ closure' = [scans |-> scans, currentScan |-> currentScan]
    /\ UNCHANGED <<rows, isUploading, error, findings, scans, currentScan,
                   storage, now, sfindings, summary, data, metrics, pc, file,
                   invoked, pageVars, records, diagnostics, exportVars, deleted>>

\* selectScan(scanId) of the last render
selectScan(scanId) ==
    /\ currentScan' = IF Find(closure.scans, scanId) # None
                      THEN Find(closure.scans, scanId)
                      ELSE currentScan
    /\ UNCHANGED <<rows, isUploading, error, findings, scans, storage, now,
                   sfindings, summary, data, metrics, pc, file, invoked,
                   uploaderVars>>

\* deleteScan(scanId) of the last render: the list is filtered in the state
\* of the moment, the current scan is replaced from what the callback closed
\* over
deleteScan(scanId) ==
    /\ scans' = WithoutId(scans, scanId)
    /\ storage' = scans'
    /\ currentScan' =
          IF closure.currentScan # None /\ closure.currentScan.id = scanId
          THEN FindOther(closure.scans, scanId)
          ELSE currentScan
    /\ UNCHANGED <<rows, isUploading, error, findings, now, sfindings, summary,
                   data, metrics, pc, file, invoked, uploaderVars>>

\* the findings the scans page hands to uploadFindings (those on which
\* calculateSummary throws leave the provider as it was)
UploadedFindings == {MapRows(<<RowOpen>>), MapRows(<<RowOpen, RowDone>>)}

\* newScan for each of them, but for its id (worked out once)
ScanOf == [fs \in UploadedFindings |-> NewScan(fs, 0)]

\* uploadFindings(findings), Date.now() reading the millisecond of the upload
\* before or the next one
ProviderUpload ==
    /\ pc = "scans page"
    /\ Len(scans) < MaxUploads /\ now < MaxUploads
    /\ \E fs \in UploadedFindings : \E t \in {now, now + 1} :
        LET newScan == [ScanOf[fs] EXCEPT !.id = t]
        IN  /\ now' = t
            /\ scans' = SliceMax(<<newScan>> \o scans)
            /\ storage' = scans'
            /\ currentScan' = newScan
    /\ UNCHANGED <<rows, isUploading, error, findings, sfindings, summary,
                   data, metrics, pc, file, invoked, uploaderVars>>

\* the scans page calls both for a scan of the list it rendered
SelectScan ==
    /\ pc = "scans page"
    /\ \E j \in DOMAIN closure.scans : selectScan(closure.scans[j].id)

DeleteRendered ==
    /\ pc = "scans page"
    /\ \E j \in DOMAIN closure.scans : deleteScan(closure.scans[j].id)

\* the page is loaded again: the effect reads the stored list
LoadEffect ==
    /\ pc = "scans page"
    /\ scans' = storage
    /\ currentScan' = IF Len(storage) > 0 THEN storage[1] ELSE None
    /\ closure' = FirstRender
    /\ UNCHANGED <<rows, isUploading, error, findings, storage, now,
                   sfindings, summary, data, metrics, pc, file, invoked,
                   pageVars, records, diagnostics, exportVars, deleted>>

\* ---------------------------------------------------------------------------
\* dataStore called directly, and behind Home
\* ---------------------------------------------------------------------------

\* the records saved
SavedData == {<<RowComplete>>, <<RowComplete, RowNoCategory>>}

\* the ids the callers pass: those of the scans ever saved and one more
ScanIds == 0..(MaxUploads + 1)

getCurrentScanFound ==
    IF Len(lsScans) = 0 THEN None ELSE Find(lsScans, lsCurrent)

\* getCurrentScan()
getCurrentScan ==
    IF Len(lsScans) = 0 THEN None
    ELSE IF Find(lsScans, lsCurrent) # None THEN Find(lsScans, lsCurrent)
    ELSE lsScans[1]

\* getScanById(id)
getScanById(id) == Find(lsScans, id)

\* dataStore.deleteScan(id)
dataStoreDeleteScan(id) ==
    /\ lsScans' = WithoutId(lsScans, id)
    /\ lsCurrent' = IF lsCurrent = id /\ Len(WithoutId(lsScans, id)) > 0
                    THEN WithoutId(lsScans, id)[1].id
                    ELSE lsCurrent

\* saveScan(findings)
ApiSaveScan ==
    /\ deleted' = NoId
    /\ pc = "dataStore api"
    /\ Len(lsScans) < MaxUploads /\ now < MaxUploads
    /\ \E fs \in SavedData : \E t \in {now, now + 1} : \E outcome \in WriteOutcomes :
        /\ now' = t
        /\ SaveScan(fs, t, outcome)
    /\ UNCHANGED <<rows, isUploading, error, findings, scans, currentScan,
                   storage, sfindings, summary, data, metrics, pc, file,
                   invoked, isLoading, uploadError, warnings, parseErrors,
                   success, isLoaded, homeScans, currentScanData, records,
                   diagnostics, exportVars, closure>>

\* setCurrentScan(id)
ApiSetCurrentScan ==
    /\ deleted' = NoId
    /\ pc = "dataStore api"
    /\ \E id \in ScanIds : lsCurrent' = id
    /\ UNCHANGED <<rows, isUploading, error, findings, scans, currentScan,
                   storage, now, sfindings, summary, data, metrics, pc, file,
                   invoked, isLoading, uploadError, warnings, parseErrors,
                   success, isLoaded, lsScans, homeScans, currentScanData,
                   records, diagnostics, exportVars, closure>>

\* deleteScan(id)
ApiDeleteScan ==
    /\ pc = "dataStore api"
    /\ \E id \in ScanIds : dataStoreDeleteScan(id) /\ deleted' = id
    /\ UNCHANGED <<rows, isUploading, error, findings, scans, currentScan,
                   storage, now, sfindings, summary, data, metrics, pc, file,
                   invoked, isLoading, uploadError, warnings, parseErrors,
                   success, isLoaded, homeScans, currentScanData, records,
                   diagnostics, exportVars, closure>>

\* Home's effect on mount
HomeMount ==
    /\ deleted' = NoId
    /\ pc = "home"
    /\ homeScans' = lsScans
    /\ currentScanData' = IF getCurrentScan # None THEN getCurrentScan ELSE None
    /\ UNCHANGED <<rows, isUploading, error, findings, scans, currentScan,
                   storage, now, sfindings, summary, data, metrics, pc, file,
                   invoked, isLoading, uploadError, warnings, parseErrors,
                   success, isLoaded, lsScans, lsCurrent, records,
                   diagnostics, exportVars, closure>>

\* Home.handleDataLoaded(findings)
HomeDataLoaded ==
    /\ deleted' = NoId
    /\ pc = "home"
    /\ Len(lsScans) < MaxUploads /\ now < MaxUploads
    /\ \E fs \in SavedData : HandleDataLoaded(fs)
    /\ UNCHANGED <<rows, isUploading, error, findings, scans, currentScan,
                   storage, sfindings, summary, data, metrics, pc, file,
                   invoked, isLoading, uploadError, warnings, parseErrors,
                   success, isLoaded, records, diagnostics, exportVars, closure>>

\* Home.handleScanSelect(scanId) for a scan of the list shown
HandleScanSelect ==
    /\ deleted' = NoId
    /\ pc = "home"
    /\ \E j \in DOMAIN homeScans :
        LET scanId == homeScans[j].id
            scan == Find(homeScans, scanId)
        IN  /\ lsCurrent' = scanId
            /\ currentScanData' = scan
    /\ UNCHANGED <<rows, isUploading, error, findings, scans, currentScan,
                   storage, now, sfindings, summary, data, metrics, pc, file,
                   invoked, isLoading, uploadError, warnings, parseErrors,
                   success, isLoaded, lsScans, homeScans, records,
                   diagnostics, exportVars, closure>>

\* Home.handleDeleteScan(scanId) for a scan of the list shown
HandleDeleteScan ==
    /\ pc = "home"
    /\ \E j \in DOMAIN homeScans :
        LET scanId == homeScans[j].id
        IN  /\ dataStoreDeleteScan(scanId)
            /\ deleted' = scanId
            /\ homeScans' = lsScans'
            /\ currentScanData' =
                  IF currentScanData # None /\ currentScanData.id = scanId
                  THEN IF Len(lsScans') > 0 THEN lsScans'[1] ELSE None
                  ELSE currentScanData
    /\ UNCHANGED <<rows, isUploading, error, findings, scans, currentScan,
                   storage, now, sfindings, summary, data, metrics, pc, file,
                   invoked, isLoading, uploadError, warnings, parseErrors,
                   success, isLoaded, records, diagnostics, exportVars, closure>>

InitScans ==
    /\ IngestIdle
    /\ AnalysisIdle
    /\ UploaderIdle
    /\ file = NoFile /\ invoked = FALSE
    /\ pc \in {"scans page", "dataStore api", "home"}

NextScans ==
    \/ ProviderUpload \/ Render \/ SelectScan \/ DeleteRendered \/ LoadEffect
    \/ ApiSaveScan \/ ApiSetCurrentScan \/ ApiDeleteScan
    \/ HomeMount \/ HomeDataLoaded \/ HandleScanSelect \/ HandleDeleteScan

SpecScans == InitScans /\ [][NextScans]_vars

--------------------------------------------------------------------------
(* CSV text: the two exports and Papa's reading of it *)

\* a text is a sequence of pieces: a double quote, a comma, a line break, or
\* a run of other characters
Quote == "\""
Comma == ","
Break == "\n"

\* the pieces of the cell values that occur
Pieces(val) ==
    CASE val = "" -> <<>>
      [] val = "a,b" -> <<"a", Comma, "b">>
      [] val = "say \"hi\"" -> <<"say ", Quote, "hi", Quote>>
      [] val = "one\ntwo" -> <<"one", Break, "two">>
      [] val = "SecureBoot: On, vTPM: On" -> <<"SecureBoot: On", Comma, " vTPM: On">>
      [] val = "SecureBoot: Off, vTPM: On" -> <<"SecureBoot: Off", Comma, " vTPM: On">>
      [] OTHER -> <<val>>

\* the string made of pieces
RECURSIVE Joined(_)
Joined(pieces) ==
    IF pieces = <<>> THEN "" ELSE Head(pieces) \o Joined(Tail(pieces))

\* cells.join(sep)
RECURSIVE Join(_, _)
Join(cells, sep) ==
    IF cells = <<>> THEN <<>>
    ELSE IF Len(cells) = 1 THEN cells[1]
    ELSE cells[1] \o <<sep>> \o Join(Tail(cells), sep)

\* `"${c || ''}"`
Wrapped(c) == <<Quote>> \o Pieces(IF c = Undefined THEN "" ELSE c) \o <<Quote>>

\* .replace(/"/g, '""')
RECURSIVE Doubled(_)
Doubled(pieces) ==
    IF pieces = <<>> THEN <<>>
    ELSE (IF Head(pieces) = Quote THEN <<Quote, Quote>> ELSE <<Head(pieces)>>)
         \o Doubled(Tail(pieces))

\* `"${val.toString().replace(/"/g, '""')}"` with val = row[col] || ''
Escaped(val) ==
    <<Quote>> \o Doubled(Pieces(IF val = Undefined THEN "" ELSE val)) \o <<Quote>>

ExportHeaders ==
    <<"Category", "Severity", "Status", "Resource", "Project", "Location",
      "Description">>

ExportFields ==
    <<"finding_category", "finding_severity", "status", "resource_name",
      "resource_project", "resource_location", "finding_description">>

\* FindingsPage.exportCSV on filteredFindings = fs
exportCSV(fs) ==
    Join(<<Join([k \in DOMAIN ExportHeaders |-> Wrapped(ExportHeaders[k])], Comma)>>
         \o [i \in DOMAIN fs |->
               Join([k \in DOMAIN ExportFields |-> Wrapped(fs[i][ExportFields[k]])],
                    Comma)],
         Break)

excludeColumns == {"SSH Keys", "API Access Scopes", "Labels", "Network Interfaces"}

\* Object.keys(data[0]) in the order of the inventory's header
ColumnOrder ==
    <<"Project ID", "Instance Name", "Status", "Zone", "Shielded VM",
      "API Access Scopes", "External IP", "OS Agent Installed",
      "Deletion Protection", "IP Forwarding", "Confidential VM">>

IsVisible(col) == col \notin excludeColumns

\* DataTable: visibleColumns
visibleColumns(rs) ==
    IF Len(rs) = 0 THEN <<>>
    ELSE SelectSeq(SelectSeq(ColumnOrder, LAMBDA col : col \in DOMAIN rs[1]),
                   IsVisible)

\* DataTable.handleExportCSV on processedData = rs, with no search, filter or
\* sorting set
handleExportCSV(rs) ==
    Join(<<Join([k \in DOMAIN visibleColumns(rs) |-> <<visibleColumns(rs)[k]>>],
               Comma)>>
         \o [i \in DOMAIN rs |->
               Join([k \in DOMAIN visibleColumns(rs) |->
                        Escaped(Get(rs[i], visibleColumns(rs)[k]))], Comma)],
         Break)

\* Papa.parse on a text, as the library reads quoted and unquoted fields:
\* a quote closes a quoted field when a comma, a line break or the end of the
\* text follows it; two quotes in a row are one quote of the value; any other
\* quote is reported and the search goes on

\* the position of the closing quote searched from j, 0 when there is none
RECURSIVE ClosingQuote(_, _)
ClosingQuote(text, j) ==
    IF j > Len(text) THEN 0
    ELSE IF text[j] # Quote THEN ClosingQuote(text, j + 1)
    ELSE IF j < Len(text) /\ text[j + 1] = Quote THEN ClosingQuote(text, j + 2)
    ELSE IF j = Len(text) \/ text[j + 1] \in {Comma, Break} THEN j
    ELSE ClosingQuote(text, j + 1)

\* the position of the first comma or line break from i, Len(text) + 1 when
\* there is none
RECURSIVE NextSeparator(_, _)
NextSeparator(text, i) ==
    IF i > Len(text) THEN i
    ELSE IF text[i] \in {Comma, Break} THEN i
    ELSE NextSeparator(text, i + 1)

\* .replace(/""/g, '"')
RECURSIVE Halved(_)
Halved(pieces) ==
    IF Len(pieces) < 2 THEN pieces
    ELSE IF pieces[1] = Quote /\ pieces[2] = Quote
         THEN <<Quote>> \o Halved(SubSeq(pieces, 3, Len(pieces)))
         ELSE <<pieces[1]>> \o Halved(Tail(pieces))

\* the field that starts at i: its value and the position after it
FieldAt(text, i) ==
    IF i <= Len(text) /\ text[i] = Quote
    THEN LET j == ClosingQuote(text, i + 1)
         IN  IF j = 0
             THEN [value |-> SubSeq(text, i + 1, Len(text)), next |-> Len(text) + 1]
             ELSE [value |-> Halved(SubSeq(text, i + 1, j - 1)), next |-> j + 1]
    ELSE [value |-> SubSeq(text, i, NextSeparator(text, i) - 1),
          next |-> NextSeparator(text, i)]

\* the rows of cells from position i on, row being the cells of the line read
\* so far and lines the lines before it
RECURSIVE ParseFrom(_, _, _, _)
ParseFrom(text, i, row, lines) ==
    LET f == FieldAt(text, i)
    IN  IF f.next > Len(text) THEN lines \o <<row \o <<f.value>>>>
        ELSE IF text[f.next] = Comma
             THEN ParseFrom(text, f.next + 1, row \o <<f.value>>, lines)
             ELSE ParseFrom(text, f.next + 1, <<>>, lines \o <<row \o <<f.value>>>>)

\* skipEmptyLines: true
IsEmptyLine(cells) == Len(cells) = 1 /\ cells[1] = <<>>
NotEmptyLine(cells) == ~IsEmptyLine(cells)

\* header: true; the object of a line under the header names
RowObject(header, cells) ==
    LET n == IF Len(cells) < Len(header) THEN Len(cells) ELSE Len(header)
    IN  [col \in {header[k] : k \in 1..n} |->
            Joined(cells[CHOOSE k \in 1..n : header[k] = col])]

\* results of Papa.parse(text, {header: true, skipEmptyLines: true})
PapaParse(text) ==
    LET lines == IF text = <<>> THEN <<>>
                 ELSE SelectSeq(ParseFrom(text, 1, <<>>, <<>>), NotEmptyLine)
        header == IF lines = <<>> THEN <<>>
                  ELSE [k \in DOMAIN lines[1] |-> Joined(lines[1][k])]
        body == IF lines = <<>> THEN <<>> ELSE Tail(lines)
        short == SelectSeq([i \in DOMAIN body |-> i],
                           LAMBDA i : Len(body[i]) # Len(header))
    IN  [data |-> [i \in DOMAIN body |-> RowObject(header, body[i])],
         errors |-> [e \in DOMAIN short |->
                        [type |-> "FieldMismatch",
                         message |-> IF Len(body[short[e]]) < Len(header)
                                     THEN "Too few fields" ELSE "Too many fields",
                         row |-> short[e] - 1]]]

\* records exported in a run
MaxExported == 2

ScannerRow(category, state, name, description) ==
    ("finding_category" :> category) @@ ("finding_severity" :> "HIGH")
    @@ ("finding_state" :> state) @@ ("resource_name" :> name)
    @@ ("resource_project" :> "proj1") @@ ("resource_location" :> "us-central1")
    @@ ("finding_description" :> description)

\* rows of a scanner's CSV, the findings of which are exported: plain values,
\* a comma, double quotes and a line break in the description
ScannerRows ==
    {ScannerRow("PUBLIC_BUCKET_ACL", "ACTIVE", "bucket-1", "Bucket is public"),
     ScannerRow("PUBLIC_BUCKET_ACL", "INACTIVE", "bucket-2", "Bucket is public"),
     ScannerRow("OPEN_FIREWALL", "ACTIVE", "", "a,b"),
     ScannerRow("OPEN_FIREWALL", "ACTIVE", "", "say \"hi\""),
     ScannerRow("OPEN_FIREWALL", "ACTIVE", "", "one\ntwo")}

\* an inventory row with double quotes, a comma and a line break in its cells
QuotedRow ==
    Row("p3", "say \"hi\"", "RUNNING", "a,b", "SecureBoot: On, vTPM: On",
        "default", "None", "Yes", "one\ntwo", "Disabled", "Enabled")

\* a scan's findings shown by FindingsPage, or the inventory shown by DataTable
InitExport ==
    /\ IngestIdle
    /\ PagesIdle
    /\ sfindings = <<>> /\ summary = None /\ data = <<>> /\ metrics = None
    /\ file = NoFile /\ invoked = FALSE
    /\ csv = <<>>
    /\ \/ /\ pc = "FindingsPage"
          /\ \E rs \in SeqsUpTo(ScannerRows, MaxExported) : exported = MapRows(rs)
       \/ /\ pc = "DataTable"
          /\ exported \in SeqsUpTo({CleanRow, ExposedRow, QuotedRow}, MaxExported)

\* FindingsPage.exportCSV
ExportCSV ==
    /\ pc = "FindingsPage"
    /\ csv' = exportCSV(exported)
    /\ pc' = "findings.csv"
    /\ UNCHANGED <<rows, isUploading, error, findings, scans, currentScan,
                   storage, now, sfindings, summary, data, metrics, file,
                   invoked, pageVars, records, diagnostics, exported,
                   closure, deleted>>

\* DataTable.handleExportCSV
HandleExportCSV ==
    /\ pc = "DataTable"
    /\ csv' = handleExportCSV(exported)
    /\ pc' = "export.csv"
    /\ UNCHANGED <<rows, isUploading, error, findings, scans, currentScan,
                   storage, now, sfindings, summary, data, metrics, file,
                   invoked, pageVars, records, diagnostics, exported,
                   closure, deleted>>

\* the exported findings read again by ScansPage processFile
IngestFindingsExport ==
    /\ pc = "findings.csv"
    /\ CompleteWith(PapaParse(csv).data)

\* the exported inventory read again by handleFile (resources)
IngestInventoryExport ==
    /\ pc = "export.csv"
    /\ ResourcesResolvedWith(PapaParse(csv))

NextExport ==
    ExportCSV \/ HandleExportCSV \/ IngestFindingsExport \/ IngestInventoryExport

SpecExport == InitExport /\ [][NextExport]_vars

--------------------------------------------------------------------------
(* the two analyses, each applied to an input *)

InitAnalyze ==
    /\ IngestIdle
    /\ \/ /\ pc = "calculateSummary"
          /\ sfindings \in SeqsUpTo(SampleFindings, MaxFindings)
          /\ data = <<>>
          /\ records = <<>>
       \/ /\ pc = "analyzeSecurityData"
          /\ data \in Inventories
          /\ sfindings = <<>>
          /\ records = <<>>
       \/ /\ pc = "validateCSVData"
          /\ records \in SeqsUpTo(SampleRecords, MaxRecords)
          /\ sfindings = <<>>
          /\ data = <<>>
    /\ summary = None
    /\ metrics = None
    /\ file = NoFile /\ invoked = FALSE
    /\ isLoading = FALSE /\ uploadError = Null /\ warnings = <<>>
    /\ parseErrors = <<>> /\ success = Null /\ isLoaded = FALSE
    /\ lsScans = <<>> /\ lsCurrent = NoId
    /\ homeScans = <<>> /\ currentScanData = None
    /\ diagnostics = <<>>
    /\ exported = <<>> /\ csv = <<>>
    /\ deleted = NoId

CalculateSummary ==
    /\ pc = "calculateSummary"
    /\ summary' = calculateSummary(sfindings)
    /\ pc' = "summarized"
    /\ UNCHANGED <<rows, isUploading, error, findings, scans, currentScan,
                   storage, now, sfindings, data, metrics, file, invoked,
                   uploaderVars>>

AnalyzeSecurityData ==
    /\ pc = "analyzeSecurityData"
    /\ metrics' = analyzeSecurityData(data)
    /\ pc' = "analyzed"
    /\ UNCHANGED <<rows, isUploading, error, findings, scans, currentScan,
                   storage, now, sfindings, summary, data, file, invoked,
                   uploaderVars>>

ValidateCSVData ==
    /\ pc = "validateCSVData"
    /\ diagnostics' = validateCSVData(records)
    /\ pc' = "validated"
    /\ UNCHANGED <<rows, isUploading, error, findings, scans, currentScan,
                   storage, now, sfindings, summary, data, metrics, file,
                   invoked, pageVars, records, restVars>>

NextAnalyze == CalculateSummary \/ AnalyzeSecurityData \/ ValidateCSVData

SpecAnalyze == InitAnalyze /\ [][NextAnalyze]_vars

\* ---------------------------------------------------------------------------
\* analyzeFindings, and the count tables of the three summaries on records
\* with unrecognized severities, empty fields and project ids that are names
\* of members of Object.prototype
\* ---------------------------------------------------------------------------

\* parts[parts.length - 1] of s.split('/')
LastSlashPart(s) ==
    CASE s = "storage.googleapis.com/Bucket"   -> "Bucket"
      [] s = "compute.googleapis.com/Instance" -> "Instance"
      [] s = "compute.googleapis.com/"         -> ""
      [] OTHER                                 -> s

HasSlash(s) ==
    s \in {"storage.googleapis.com/Bucket", "compute.googleapis.com/Instance",
           "compute.googleapis.com/"}

extractResourceType(resourceTypeOrName) ==
    IF HasSlash(resourceTypeOrName)
    THEN OrElse(LastSlashPart(resourceTypeOrName), "Unknown")
    ELSE OrElse(resourceTypeOrName, "Unknown")

\* Math.max(0, 100 - Math.min(deduction, 100)), rounded: all of it in integers
calculateSecurityScore(bySeverity, total) ==
    IF total = 0 THEN 100
    ELSE LET deduction == bySeverity["CRITICAL"] * 25 + bySeverity["HIGH"] * 15
                          + bySeverity["MEDIUM"] * 5 + bySeverity["LOW"] * 1
             capped == IF deduction < 100 THEN deduction ELSE 100
         IN  IF 100 - capped > 0 THEN 100 - capped ELSE 0

\* (finding.finding_severity || 'INFO').toUpperCase()
SeverityKey(f) == Upper(OrElse(f.finding_severity, "INFO"))
ResourceTypeKey(f) == extractResourceType(OrElse(f.resource_type, OrElse(f.resource_name, "")))
CategoryKey(f) == OrElse(f.finding_category, "Unknown")
ProjectKey(f) == OrElse(f.resource_project, "Unknown")
LocationKey(f) == OrElse(f.resource_location, "global")

\* categorySeverity[name] || 'INFO': what the last finding of the category
\* left there
CategorySeverity(fs, name) ==
    LET last == CHOOSE i \in DOMAIN fs :
                    /\ CategoryKey(fs[i]) = name
                    /\ \A j \in DOMAIN fs : CategoryKey(fs[j]) = name => j <= i
    IN  OrElse(fs[last].finding_severity, "INFO")

\* the entries of byCategory, in the order the categories were first met,
\* sorted by count, larger first, equal counts staying in that order
RECURSIVE SortedByCount(_, _)
SortedByCount(byCategory, firstMet) ==
    IF DOMAIN byCategory = {} THEN <<>>
    ELSE LET top == CHOOSE k \in DOMAIN byCategory :
                        \A o \in DOMAIN byCategory :
                            \/ byCategory[o] < byCategory[k]
                            \/ byCategory[o] = byCategory[k] /\ firstMet[k] <= firstMet[o]
             rest == [k \in DOMAIN byCategory \ {top} |-> byCategory[k]]
         IN  <<top>> \o SortedByCount(rest, firstMet)

TopCategories(fs, byCategory) ==
    LET firstMet == [k \in DOMAIN byCategory |->
                        CHOOSE i \in DOMAIN fs :
                            /\ CategoryKey(fs[i]) = k
                            /\ \A j \in DOMAIN fs : CategoryKey(fs[j]) = k => i <= j]
        names == SortedByCount(byCategory, firstMet)
    IN  [n \in 1..(IF Len(names) < 10 THEN Len(names) ELSE 10) |->
            [name |-> names[n], count |-> byCategory[names[n]],
             severity |-> CategorySeverity(fs, names[n])]]

analyzeFindings(fs) ==
    LET bySeverity == [s \in Severities |->
                          Cardinality({i \in DOMAIN fs : SeverityKey(fs[i]) = s})]
        byCategory == Tally([i \in DOMAIN fs |-> CategoryKey(fs[i])])
    IN  [totalFindings  |-> Len(fs),
         bySeverity     |-> bySeverity,
         byResourceType |-> Tally([i \in DOMAIN fs |-> ResourceTypeKey(fs[i])]),
         byCategory     |-> byCategory,
         byProject      |-> Tally([i \in DOMAIN fs |-> ProjectKey(fs[i])]),
         byLocation     |-> Tally([i \in DOMAIN fs |-> LocationKey(fs[i])]),
         securityScore  |-> calculateSecurityScore(bySeverity, Len(fs)),
         topCategories  |-> TopCategories(fs, byCategory)]

\* longest record collection summarized
MaxSummarized == 2

\* rows of a findings file: a category column, a severity that is not one of
\* the five, empty cells, and projects named like members of Object.prototype
Categorized(row, category, location) ==
    row @@ ("Category" :> category) @@ ("Location" :> location)

SummarizedRows ==
    {Categorized(RowOpen, "PUBLIC_BUCKET_ACL", "us-central1"),
     Categorized(RowDone, "OPEN_FIREWALL", ""),
     RowBogus,
     RowEmpty,
     CsvRow("r9", "Severity", "HIGH", "State", "ACTIVE",
            "compute.googleapis.com/", "constructor"),
     CsvRow("r10", "Severity", "LOW", "State", "ACTIVE", "", Proto)}

\* the findings processFile builds from them
SummarizedFindings == {MapRow(row, 1) : row \in SummarizedRows}

\* inventory rows: a clean one, one with empty cells, and two with such
\* project ids
SummarizedInventory ==
    {CleanRow, SparseRow,
     [CleanRow EXCEPT !["Project ID"] = "constructor"],
     [CleanRow EXCEPT !["Project ID"] = Proto]}

InitTables ==
    /\ IngestIdle
    /\ PagesIdle
    /\ exported = <<>> /\ csv = <<>>
    /\ summary = None /\ metrics = None
    /\ file = NoFile /\ invoked = FALSE
    /\ \/ /\ pc \in {"calculateSummary", "analyzeFindings"}
          /\ sfindings \in SeqsUpTo(SummarizedFindings, MaxSummarized)
          /\ data = <<>>
       \/ /\ pc = "analyzeSecurityData"
          /\ data \in SeqsUpTo(SummarizedInventory, MaxSummarized)
          /\ sfindings = <<>>

AnalyzeFindings ==
    /\ pc = "analyzeFindings"
    /\ metrics' = analyzeFindings(sfindings)
    /\ pc' = "findings analyzed"
    /\ UNCHANGED <<rows, isUploading, error, findings, scans, currentScan,
                   storage, now, sfindings, summary, data, file, invoked,
                   uploaderVars>>

NextTables == CalculateSummary \/ AnalyzeFindings \/ AnalyzeSecurityData

SpecTables == InitTables /\ [][NextTables]_vars

--------------------------------------------------------------------------
(* properties *)

\* C1: every Finding built from a CSV row has status PASS exactly when its
\* finding_state is INACTIVE, and FAIL otherwise, whichever header carries
\* the state and whatever the letter case of the cell.
C1_StatusIffInactive ==
    \A i \in DOMAIN findings :
        /\ findings[i].status \in {"PASS", "FAIL"}
        /\ findings[i].status = "PASS" <=> findings[i].finding_state = "INACTIVE"

\* C2: every ingested Finding's severity is one of the five; a severity that
\* is absent or not one of them becomes INFO, the row is kept, and
\* calculateSummary never meets a severity it does not know.
C2_SeverityOneOfFive ==
    /\ \A i \in DOMAIN findings : findings[i].finding_severity \in Severities
    /\ pc = "idle" => Len(findings) = Len(rows)
    /\ error # "Failed to parse CSV file"

\* C3: the threatScore calculateSummary returns is an integer from 0 to 100;
\* it is 0 when every finding is INFO and 100 when every finding is CRITICAL.
C3_ThreatScoreRange ==
    (pc = "summarized" /\ summary # TypeError) =>
        /\ summary.threatScore \in 0..100
        /\ (\A i \in DOMAIN sfindings : sfindings[i].finding_severity = "INFO")
            => summary.threatScore = 0
        /\ (sfindings # <<>> /\
            \A i \in DOMAIN sfindings : sfindings[i].finding_severity = "CRITICAL")
            => summary.threatScore = 100

C3_AllCritical ==
    /\ pc = "summarized"
    /\ Len(sfindings) = 3
    /\ \A i \in DOMAIN sfindings : sfindings[i].finding_severity = "CRITICAL"
    /\ summary.threatScore = 100

\* the weights as the claims give them
ClaimedSeverityWeight(sev) ==
    CASE sev = "CRITICAL" -> 10
      [] sev = "HIGH"     -> 5
      [] sev = "MEDIUM"   -> 2
      [] sev = "LOW"      -> 1
      [] sev = "INFO"     -> 0

RECURSIVE WeightedCount(_)
WeightedCount(fs) ==
    IF fs = <<>> THEN 0
    ELSE ClaimedSeverityWeight(Head(fs).finding_severity) + WeightedCount(Tail(fs))

\* a / b (b > 0) rounded to the nearest integer, a half rounding up
RoundRatio(a, b) == (2 * a + b) \div (2 * b)

\* C4: for a non-empty collection threatScore is
\* round(100 * sum of count * weight / (10 * total)), weights 10, 5, 2, 1, 0;
\* for an empty one it is 0; one CRITICAL plus one LOW gives 55.
C4_ThreatScoreFormula ==
    (pc = "summarized" /\ summary # TypeError) =>
        summary.threatScore =
            IF sfindings = <<>> THEN 0
            ELSE RoundRatio(100 * WeightedCount(sfindings), 10 * Len(sfindings))

\* C5: the securityScore analyzeSecurityData returns is an integer from 0 to
\* 100, and it is 100 whenever the issue list is empty, the empty inventory
\* included.
C5_SecurityScoreRange ==
    pc = "analyzed" =>
        /\ metrics.securityScore \in 0..100
        /\ metrics.issues = <<>> => metrics.securityScore = 100

C5_Floor ==
    /\ pc = "analyzed"
    /\ Len(data) = 2
    /\ Len(metrics.issues) = 7
    /\ metrics.securityScore = 0

ClaimedIssueWeight(sev) ==
    CASE sev = "critical" -> 15
      [] sev = "high"     -> 10
      [] sev = "medium"   -> 5
      [] sev = "low"      -> 2

Min(a, b) == IF a < b THEN a ELSE b

\* total times the sum of the deductions the claim describes
RECURSIVE ClaimedDeductions(_, _)
ClaimedDeductions(issues, total) ==
    IF issues = <<>> THEN 0
    ELSE Min(ClaimedIssueWeight(Head(issues).severity) * Head(issues).count * 10,
             ClaimedIssueWeight(Head(issues).severity) * 3 * total)
         + ClaimedDeductions(Tail(issues), total)

ClaimedSecurityScore(issues, total) ==
    IF total = 0 THEN 100
    ELSE MathMax0(RoundRatio(100 * total - ClaimedDeductions(issues, total), total))

\* C6: securityScore is max(0, round(100 - sum of deductions)), an issue
\* deducting min(weight * (count / total) * 10, weight * 3) with weights 15,
\* 10, 5, 2; five records of which four have scope 'cloud-platform' and
\* nothing else give one issue, critical with count 4, and score 55.
C6_SecurityScoreFormula ==
    pc = "analyzed" =>
        /\ metrics.securityScore = ClaimedSecurityScore(metrics.issues, Len(data))
        /\ (/\ Len(data) = 5
            /\ \A i \in DOMAIN data : data[i] \in {FullApiRow, CleanRow}
            /\ Cardinality({i \in DOMAIN data : data[i] = FullApiRow}) = 4)
            => /\ Len(metrics.issues) = 1
               /\ metrics.issues[1].severity = "critical"
               /\ metrics.issues[1].count = 4
               /\ metrics.securityScore = 55

\* q with its elements i and i + 1 exchanged
Swap(q, i) == [q EXCEPT ![i] = q[i + 1], ![i + 1] = q[i]]

\* what the claim compares of an analysis
Aggregates(m) ==
    [byProject |-> m.byProject, byStatus |-> m.byStatus, byZone |-> m.byZone,
     issues |-> [j \in DOMAIN m.issues |->
                    [severity |-> m.issues[j].severity, count |-> m.issues[j].count]],
     securityScore |-> m.securityScore]

\* C7: aggregation does not depend on the order of the records: exchanging
\* two neighbours of the input (every reordering is a chain of these, and
\* every sequence is an input) leaves calculateSummary's total, passed,
\* failed, bySeverity, byService, byProject and threatScore, and
\* analyzeSecurityData's byProject, byStatus, byZone, issue severities and
\* counts and securityScore as they are.
C7_OrderIndependent ==
    /\ pc = "summarized" =>
        \A i \in 1..(Len(sfindings) - 1) :
            calculateSummary(Swap(sfindings, i)) = summary
    /\ pc = "analyzed" =>
        \A i \in 1..(Len(data) - 1) :
            Aggregates(analyzeSecurityData(Swap(data, i))) = Aggregates(metrics)

C7_Reordered ==
    /\ pc = "summarized"
    /\ Len(sfindings) = 3
    /\ sfindings[1].finding_severity = "CRITICAL"
    /\ sfindings[2].finding_severity = "LOW"
    /\ summary # TypeError

\* C8: a record whose 'API Access Scopes' contains 'cloud-platform' always
\* yields a critical issue whose affectedResources holds that record's
\* '{Project ID}/{Instance Name}'.
C8_CloudPlatformCritical ==
    pc = "analyzed" =>
        \A i \in DOMAIN data :
            Includes(GetOr(data[i], "API Access Scopes", ""), "cloud-platform") =>
                \E j \in DOMAIN metrics.issues :
                    /\ metrics.issues[j].severity = "critical"
                    /\ \E m \in DOMAIN metrics.issues[j].affectedResources :
                           metrics.issues[j].affectedResources[m]
                               = Get(data[i], "Project ID") \o "/"
                                 \o Get(data[i], "Instance Name")

C8_ScopeUrl ==
    /\ pc = "analyzed"
    /\ Len(data) = 3
    /\ data[3] = UrlScopeRow
    /\ data[1] = CleanRow

DisabledCount ==
    Cardinality({i \in DOMAIN data : Get(data[i], "Confidential VM") = "Disabled"})

ConfidentialIssuePresent ==
    \E j \in DOMAIN metrics.issues : metrics.issues[j].title = "Confidential VM Not Used"

ClaimedRank(sev) ==
    CASE sev = "critical" -> 0
      [] sev = "high"     -> 1
      [] sev = "medium"   -> 2
      [] sev = "low"      -> 3

\* the position of the predicate that raises the issue titled so
PredicateOf(title) == CHOOSE k \in 1..7 : IssueTitle(k) = title

\* C10: the issues are ordered critical, high, medium, low, and issues of
\* equal severity keep the order of their predicates (External IP before IP
\* Forwarding; OS Agent, Deletion Protection, Confidential VM).
C10_IssueOrder ==
    pc = "analyzed" =>
        \A i, j \in DOMAIN metrics.issues :
            i < j =>
                \/ ClaimedRank(metrics.issues[i].severity)
                       < ClaimedRank(metrics.issues[j].severity)
                \/ /\ metrics.issues[i].severity = metrics.issues[j].severity
                   /\ PredicateOf(metrics.issues[i].title)
                          < PredicateOf(metrics.issues[j].title)

C10_AllSeven ==
    /\ pc = "analyzed"
    /\ Len(metrics.issues) = 7
    /\ metrics.issues[3].title = "External IP Assigned"
    /\ metrics.issues[4].title = "IP Forwarding Enabled"
    /\ metrics.issues[7].title = "Confidential VM Not Used"

\* the records of data that predicate k matches
MatchCount(k) == Cardinality({i \in DOMAIN data : Matches(k, data[i])})

\* the positions in the issue list of the issues predicate k raised
IssuesOf(k) == {j \in DOMAIN metrics.issues : metrics.issues[j].title = IssueTitle(k)}

\* C11: each of the seven predicates emits at most one issue, none when it
\* matches no record, and every emitted issue has count equal to the number
\* of records its predicate matches, which is at least 1.
C11_OneIssuePerPredicate ==
    pc = "analyzed" =>
        /\ \A k \in 1..7 :
            /\ Cardinality(IssuesOf(k)) <= 1
            /\ MatchCount(k) = 0 => IssuesOf(k) = {}
            /\ \A j \in IssuesOf(k) :
                /\ metrics.issues[j].count = MatchCount(k)
                /\ metrics.issues[j].count >= 1
        /\ \A j \in DOMAIN metrics.issues : \E k \in 1..7 : j \in IssuesOf(k)

C11_SomeUntriggered ==
    /\ pc = "analyzed"
    /\ Len(data) = 4
    /\ Len(metrics.issues) = 3
    /\ \E j \in DOMAIN metrics.issues : metrics.issues[j].count = 3
    /\ MatchCount(7) = 3

\* the keys of the records of rs that predicate k matches, in input order
RECURSIVE MatchingKeys(_, _)
MatchingKeys(rs, k) ==
    IF rs = <<>> THEN <<>>
    ELSE (IF Matches(k, Head(rs))
          THEN <<Get(Head(rs), "Project ID") \o "/" \o Get(Head(rs), "Instance Name")>>
          ELSE <<>>)
         \o MatchingKeys(Tail(rs), k)

\* C12: an issue other than 'Confidential VM Not Used' lists exactly count
\* keys, one '{Project ID}/{Instance Name}' per matching record in input
\* order; the Confidential VM issue lists only the first min(10, count) of
\* them while its count reports them all.
C12_AffectedResources ==
    pc = "analyzed" =>
        \A k \in 1..7 : \A j \in IssuesOf(k) :
            /\ metrics.issues[j].count = Len(MatchingKeys(data, k))
            /\ IF k = 7
               THEN metrics.issues[j].affectedResources =
                        SubSeq(MatchingKeys(data, k), 1, Min(10, metrics.issues[j].count))
               ELSE /\ metrics.issues[j].affectedResources = MatchingKeys(data, k)
                    /\ Len(metrics.issues[j].affectedResources) = metrics.issues[j].count

C12_Truncated ==
    /\ pc = "analyzed"
    /\ \E j \in IssuesOf(7) :
        /\ metrics.issues[j].count = 11
        /\ Len(metrics.issues[j].affectedResources) = 10

\* C13: for every finding collection given to calculateSummary, and so for
\* the summary of every stored scan, passed + failed equals total.
C13_PassedPlusFailed ==
    /\ (pc = "summarized" /\ summary # TypeError) =>
        /\ summary.passed + summary.failed = summary.total
        /\ summary.total = Len(sfindings)
    /\ \A j \in DOMAIN scans :
        scans[j].summary.passed + scans[j].summary.failed = scans[j].summary.total

C13_InactiveButFail ==
    /\ pc = "summarized"
    /\ Len(sfindings) = 2
    /\ sfindings[1].status = "FAIL" /\ sfindings[1].finding_state = "INACTIVE"
    /\ summary.passed = 1
    /\ summary.failed = 1


\* C14: in every ingestion path a parsed row is kept iff one of its values is
\* non-empty after trimming, so a row of empty values is dropped. Stated for
\* ScansPage processFile: the findings built from results.data are those of
\* its rows that have a value, in their order.
C14_RowKeptIffNonEmpty ==
    /\ Len(findings) = Len(FilterRows(rows))
    /\ \A i \in DOMAIN findings :
           findings[i].finding_name = GetOr(FilterRows(rows)[i], "Finding Name", "")


\* a row lacks a field when it has no value under any of the field's names
RowLacks(row, names) == \A col \in names \cap DOMAIN row : row[col] = ""

DiagnosticsOf(i, message) ==
    {j \in DOMAIN diagnostics :
        diagnostics[j].row = i + 1 /\ diagnostics[j].message = message}

\* C16: validateCSVData (findings) returns exactly one warning for each row
\* that lacks a category and one for each row that lacks a severity, each
\* with row number index + 2 (the i-th row of the collection, counted from 1,
\* has index i - 1), and nothing else: no diagnostic of type error, none for
\* another row; the collection it was given is the one it leaves.
C16_ValidateWarnings ==
    pc = "validated" =>
        /\ \A j \in DOMAIN diagnostics :
              /\ diagnostics[j].type = "warning"
              /\ \E i \in DOMAIN records :
                    j \in DiagnosticsOf(i, "Missing finding category")
                          \cup DiagnosticsOf(i, "Missing severity level")
        /\ \A i \in DOMAIN records :
              /\ Cardinality(DiagnosticsOf(i, "Missing finding category")) =
                    (IF RowLacks(records[i], {"finding_category", "category"})
                        THEN 1 ELSE 0)
              /\ Cardinality(DiagnosticsOf(i, "Missing severity level")) =
                    (IF RowLacks(records[i], {"finding_severity", "severity"})
                        THEN 1 ELSE 0)

C16_BothMissing ==
    /\ pc = "validated"
    /\ Len(records) = 3
    /\ records[1] = RowLegacy
    /\ records[3] = RowNeither
    /\ Len(diagnostics) = 2
    /\ diagnostics[1].row = 4 /\ diagnostics[2].row = 4


\* an upload of an accepted file has ended with parseCSV resolved
UploadResolved ==
    /\ pc \in {"findings", "resources"}
    /\ file.csv /\ ~file.big
    /\ uploadError # "Failed to parse CSV"

\* C15: ingestion ends in a fatal outcome only when the file cannot be parsed
\* or when no non-empty row remains after filtering; with a non-empty row,
\* missing required columns and parser complaints give warnings at most and
\* the records are handed on. So once parseCSV has resolved, an error is set
\* only if no row remained, and with a row remaining the rows were handed on.
C15_FatalOnlyWithoutRows ==
    UploadResolved =>
        /\ uploadError # Null => Len(records) = 0
        /\ Len(records) > 0 => invoked


\* C17: in every upload entry point a file larger than 50 MiB, or one whose
\* name does not end in .csv, is rejected with an error before the parser is
\* invoked, and nothing is loaded or stored. Stated for ScansPage: while the
\* file handed to handleDrop or handleFileInput is such a file, the parser is
\* not running, an error is shown and uploadFindings has not been called.
C17_RejectedBeforeParsing ==
    (~file.csv \/ file.big) =>
        /\ pc # "parsing"
        /\ error # Null
        /\ ~invoked

\* an upload has just ended with an error shown
FatalOutcome ==
    \/ pc' = "idle" /\ error' # Null
    \/ pc' \in {"findings", "resources"} /\ uploadError' # Null

\* C19: when an upload ends in a fatal outcome, onDataLoaded / uploadFindings
\* has not been invoked by it and the scan store's list and current scan, and
\* the records shown, are what they were: a step that ends an upload with an
\* error leaves them unchanged and has made no such call.
C19_FatalLeavesStore ==
    [][FatalOutcome =>
        /\ ~invoked'
        /\ UNCHANGED <<scans, currentScan, storage, lsScans, lsCurrent,
                       homeScans, currentScanData, data, isLoaded>>]_vars


\* ids are the times of the saves: a later save has the greater id
NewestFirst(list) == \A i \in 1..(Len(list) - 1) : list[i].id > list[i + 1].id

\* the list after a save at time t into a list of ten: the scan saved at t,
\* then the first nine of the list before
SavedIntoFull(after, before, t) ==
    /\ Len(after) = 10
    /\ after[1].id = t
    /\ SubSeq(after, 2, 10) = SubSeq(before, 1, 9)

SameButId(f, g) ==
    /\ DOMAIN f = DOMAIN g
    /\ \A field \in DOMAIN f \ {"id"} : f[field] = g[field]

\* C20: exporting a record set to CSV and ingesting the exported text again
\* yields records equal field by field to the exported ones, apart from the
\* ids, also with double quotes, commas or line breaks in the values: after
\* the export was read again, the findings (the inventory) are as many as the
\* exported ones and agree with them one by one.
C20_ExportRoundTrip ==
    /\ pc = "idle" =>
        /\ Len(findings) = Len(exported)
        /\ \A i \in DOMAIN findings : SameButId(findings[i], exported[i])
    /\ pc = "resources" => data = exported


\* the headers of a row that name the severity, whatever their case and
\* whether written with spaces or underscores
SeverityHeaders(row) ==
    {col \in DOMAIN row :
        transformHeader(col) \in {"finding_severity", "severity"} /\ row[col] # ""}

\* C21: each canonical field of a Finding is resolved from the header case-
\* and space-insensitively, the first non-empty value wins and the default is
\* taken when none is present. Stated for finding_severity in ScansPage
\* processFile: a row with one non-empty severity column, under 'Finding
\* Severity', 'finding_severity', 'Severity' or 'severity', gives the finding
\* that value in upper case, and a row with none gives INFO.
C21_SeverityResolved ==
    \A i \in DOMAIN findings :
        /\ SeverityHeaders(rows[i]) = {} => findings[i].finding_severity = "INFO"
        /\ \A col \in SeverityHeaders(rows[i]) :
              SeverityHeaders(rows[i]) = {col} =>
                  findings[i].finding_severity = Upper(rows[i][col])


\* the project a record is to be counted under
ClaimedProject(f) == IF f.resource_project = "" THEN "unknown" ELSE f.resource_project

\* the service a record is to be counted under
ClaimedService(f) ==
    IF f.resource_type = "" THEN "unknown" ELSE SplitDotFirst(f.resource_type)

\* C22: when findings are aggregated, each record is counted under the
\* service before the first '.' of resource_type, or 'unknown' when that is
\* empty, and under its project id, or 'unknown' when that is empty. Stated
\* for calculateSummary: byService and byProject have exactly these keys,
\* each with the number of records counted under it.
C22_CountedUnder ==
    (pc = "summarized" /\ summary # TypeError) =>
        /\ DOMAIN summary.byService = {ClaimedService(sfindings[i]) : i \in DOMAIN sfindings}
        /\ \A k \in DOMAIN summary.byService :
              summary.byService[k] =
                Cardinality({i \in DOMAIN sfindings : ClaimedService(sfindings[i]) = k})
        /\ DOMAIN summary.byProject = {ClaimedProject(sfindings[i]) : i \in DOMAIN sfindings}
        /\ \A k \in DOMAIN summary.byProject :
              summary.byProject[k] =
                Cardinality({i \in DOMAIN sfindings : ClaimedProject(sfindings[i]) = k})

\* ---------------------------------------------------------------------------
\* C23: every scan the DataProvider holds (in its list, which the stored copy
\* equals, and as current scan) carries the summary calculateSummary gives for that scan's
\* own findings, its total being their number; every scan dataStore holds
\* carries the number of its findings as findingsCount
\* ---------------------------------------------------------------------------
\* calculateSummary(fs), worked out once for the findings uploaded
SummaryTable == [fs \in {ScanOf[u].findings : u \in UploadedFindings} |-> calculateSummary(fs)]
SummaryFor(fs) == IF fs \in DOMAIN SummaryTable THEN SummaryTable[fs] ELSE calculateSummary(fs)

SummaryOfOwn(scan) ==
    /\ scan.summary = SummaryFor(scan.findings)
    /\ scan.summary.total = Len(scan.findings)

C23_SummaryOfOwnFindings ==
    /\ \A j \in DOMAIN scans : SummaryOfOwn(scans[j])
    /\ storage = scans
    /\ currentScan # None => SummaryOfOwn(currentScan)
    /\ \A j \in DOMAIN lsScans : lsScans[j].findingsCount = Len(lsScans[j].findings)
    /\ \A j \in DOMAIN homeScans : homeScans[j].findingsCount = Len(homeScans[j].findings)

\* a scan of two findings is left after the scan before it was deleted
C23_LeftAfterDeletion ==
    /\ Len(scans) = 1 /\ Len(closure.scans) = 2
    /\ scans[1].summary.total = 2
    /\ scans[1] = closure.scans[2]

\* ---------------------------------------------------------------------------
\* C24: in the DataProvider, currentScan is null or one of scans, and null
\* only when scans is empty
\* ---------------------------------------------------------------------------
IsMember(scan, list) == \E j \in DOMAIN list : list[j] = scan

C24_CurrentAmongScans ==
    pc = "scans page" =>
        /\ currentScan = None \/ IsMember(currentScan, scans)
        /\ currentScan = None => scans = <<>>

\* ---------------------------------------------------------------------------
\* C25: getCurrentScan() is null exactly when nothing is stored; otherwise it
\* is a stored scan: the one under the persisted current id when that id is
\* stored, else the newest one (the first of the list, none having a later
\* id)
\* ---------------------------------------------------------------------------
IsStoredId(id) == \E j \in DOMAIN lsScans : lsScans[j].id = id

C25_CurrentOfStore ==
    /\ getCurrentScan = None <=> lsScans = <<>>
    /\ lsScans # <<>> =>
        /\ IsMember(getCurrentScan, lsScans)
        /\ IsStoredId(lsCurrent) => getCurrentScan.id = lsCurrent
        /\ ~IsStoredId(lsCurrent) =>
              /\ getCurrentScan = lsScans[1]
              /\ \A j \in DOMAIN lsScans : lsScans[j].id <= getCurrentScan.id

\* setCurrentScan was given an id never saved, two scans being stored
C25_UnstoredCurrent ==
    /\ pc = "dataStore api"
    /\ Len(lsScans) = 2
    /\ lsCurrent = MaxUploads + 1
    /\ getCurrentScan = lsScans[1]

\* ---------------------------------------------------------------------------
\* C26: within each store the ids of the scans are pairwise distinct, so that
\* an id addresses one scan and no step removes more than one scan
\* ---------------------------------------------------------------------------
DistinctIds(list) ==
    \A i, j \in DOMAIN list : i # j => list[i].id # list[j].id

C26_DistinctIds ==
    /\ [](DistinctIds(scans) /\ DistinctIds(lsScans))
    /\ [][/\ Len(scans') >= Len(scans) - 1
          /\ Len(lsScans') >= Len(lsScans) - 1]_vars

\* ---------------------------------------------------------------------------
\* C27: a step of dataStore.deleteScan(id) takes exactly one scan, the one
\* under id, out of the list and keeps the others in their order; it changes
\* the persisted current id only when that was id and a scan remains, to the
\* id of the first scan remaining; for an id not stored it changes nothing
\* ---------------------------------------------------------------------------
\* list without its k-th scan
WithoutKth(list, k) == SubSeq(list, 1, k - 1) \o SubSeq(list, k + 1, Len(list))

DeletesAsClaimed(id) ==
    /\ IsStoredId(id) =>
          \E k \in DOMAIN lsScans :
              lsScans[k].id = id /\ lsScans' = WithoutKth(lsScans, k)
    /\ lsCurrent' # lsCurrent => lsCurrent = id /\ lsScans' # <<>>
    /\ (lsCurrent = id /\ lsScans' # <<>>) => lsCurrent' = lsScans'[1].id
    /\ ~IsStoredId(id) => lsScans' = lsScans /\ lsCurrent' = lsCurrent

C27_DeleteExactlyOne ==
    [][(deleted' # NoId /\ deleted' # deleted) => DeletesAsClaimed(deleted')]_vars

\* ---------------------------------------------------------------------------
\* C28: the scan Home shows as current is null, or it is one of the persisted
\* list and has the id of the scan getCurrentScan() returns
\* ---------------------------------------------------------------------------
C28_ShownIsCurrent ==
    (pc = "home" /\ currentScanData # None) =>
        /\ IsMember(currentScanData, lsScans)
        /\ getCurrentScan # None
        /\ currentScanData.id = getCurrentScan.id

\* ---------------------------------------------------------------------------
\* C29: in every summary each count table holds counts that sum to the
\* number of records: bySeverity, byService and byProject of calculateSummary,
\* byResourceType, byCategory, byProject and byLocation of analyzeFindings,
\* byProject, byStatus and byZone of analyzeSecurityData
\* ---------------------------------------------------------------------------
\* no key of the table holds text in place of a count, and the counts sum to
\* total
SumsTo(table, total) ==
    /\ DOMAIN table \cap ObjectPrototype = {}
    /\ SumOver(table, DOMAIN table) = total

C29_TablesSumToTotal ==
    /\ (pc = "summarized" /\ summary # TypeError) =>
          /\ SumsTo(summary.bySeverity, summary.total)
          /\ SumsTo(summary.byService, summary.total)
          /\ SumsTo(summary.byProject, summary.total)
    /\ pc = "findings analyzed" =>
          /\ SumsTo(metrics.byResourceType, metrics.totalFindings)
          /\ SumsTo(metrics.byCategory, metrics.totalFindings)
          /\ SumsTo(metrics.byProject, metrics.totalFindings)
          /\ SumsTo(metrics.byLocation, metrics.totalFindings)
    /\ pc = "analyzed" =>
          /\ SumsTo(metrics.byProject, metrics.totalResources)
          /\ SumsTo(metrics.byStatus, metrics.totalResources)
          /\ SumsTo(metrics.byZone, metrics.totalResources)

\* ---------------------------------------------------------------------------
\* C30: an upload in progress is followed by the in-progress flag being false
\* again, and whenever an attempt has ended (the flag is false after a step
\* of the page) exactly one of the two has happened: an error message is set,
\* the records were handed on
\* ---------------------------------------------------------------------------
ErrorSet ==
    IF pc \in {"idle", "parsing"} THEN error # Null ELSE uploadError # Null

HandedOn == invoked

ExactlyOne == (ErrorSet /\ ~HandedOn) \/ (~ErrorSet /\ HandedOn)

C30_UploaderReturnsIdle ==
    /\ isUploading ~> ~isUploading
    /\ isLoading ~> ~isLoading
    /\ [][(~isUploading' /\ ~isLoading') => ExactlyOne']_vars

====================================================================
